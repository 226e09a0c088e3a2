------------------------------- MODULE Custody -------------------------------
(***************************************************************************)
(* What the mandate promises about an identity, without saying how: it has *)
(* at most one home, given once and changed only on its owner's word,      *)
(* which says where to and may say from where; it is served to one         *)
(* instance at a time, the home when there is one; and once barred it is   *)
(* neither served nor moved.  Anyone may give a word; only the owner's     *)
(* counts.                                                                 *)
(***************************************************************************)
CONSTANTS
    Tik, Instance, Authority, None,
    Durable     \* whether the custodian remembers across a restart

VARIABLES
    home,       \* the instance an identity is enrolled on, None before
    owner,      \* who may move it, None when nobody may
    incumbent,  \* the instance it is being served to, None when to nobody yet
    barred,     \* the identities revoked
    words       \* what anyone has ever said of where an identity is to go

vars == <<home, owner, incumbent, barred, words>>

Word == [identity : Tik, from : Instance \cup {None}, to : Instance, by : Authority]

Init ==
    /\ home = [k \in Tik |-> None]
    /\ owner = [k \in Tik |-> None]
    /\ incumbent = [k \in Tik |-> None]
    /\ barred = {} /\ words = {}

\* The first enrolment wins; the incumbent, if any, is left where it is.
Bind(k, i, o) ==
    /\ home[k] = None
    /\ home' = [home EXCEPT ![k] = i]
    /\ owner' = [owner EXCEPT ![k] = o]
    /\ UNCHANGED <<incumbent, barred, words>>

Serve(k, i) ==
    /\ k \notin barred
    /\ home[k] \in {None, i}
    /\ incumbent[k] \in {None, i}
    /\ incumbent' = [incumbent EXCEPT ![k] = i]
    /\ UNCHANGED <<home, owner, barred, words>>

GiveWord(w) ==
    /\ words' = words \cup {w}
    /\ UNCHANGED <<home, owner, incumbent, barred>>

\* The owner has said that this identity may go from here to there.
MayMove(k, i) ==
    \E w \in words : /\ w.identity = k /\ w.by = owner[k]
                     /\ w.from \in {None, home[k]} /\ w.to = i

\* A move ends the incumbency: the new home starts as nobody's.
MoveHome(k, i) ==
    /\ k \notin barred
    /\ home[k] # None /\ MayMove(k, i)
    /\ home' = [home EXCEPT ![k] = i]
    /\ incumbent' = [incumbent EXCEPT ![k] = None]
    /\ UNCHANGED <<owner, barred, words>>

Bar(k) ==
    /\ barred' = barred \cup {k}
    /\ UNCHANGED <<home, owner, incumbent, words>>

Forget ==
    /\ ~Durable
    /\ home' = [k \in Tik |-> None]
    /\ owner' = [k \in Tik |-> None]
    /\ incumbent' = [k \in Tik |-> None]
    /\ barred' = {}
    /\ UNCHANGED words

Next ==
    \/ \E k \in Tik, i \in Instance :
         \/ \E o \in Authority \cup {None} : Bind(k, i, o)
         \/ Serve(k, i)
         \/ MoveHome(k, i)
    \/ \E k \in Tik : Bar(k)
    \/ \E w \in Word : GiveWord(w)
    \/ Forget

Spec == Init /\ [][Next]_vars
=============================================================================

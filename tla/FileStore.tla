------------------------------ MODULE FileStore ------------------------------
(***************************************************************************)
(* The durable store (hatls/store.py, class FileStore): one JSON file per  *)
(* identity, written under a temporary name, synced, and renamed into      *)
(* place.  put() is taken one system call at a time, by several writers at *)
(* once, any of which may raise or die between two calls.                  *)
(*                                                                         *)
(* The file system is POSIX's: a rename is atomic for whoever looks, and   *)
(* reaches the disk some time later, the directory not being synced; what  *)
(* a power cut finds unsynced in a file is lost.                           *)
(***************************************************************************)
CONSTANTS
    Identity,       \* ledger keys
    Value,          \* records
    Writer,         \* calls of put() that may be under way together
    None, Torn,     \* no file; a file cut short
    PowerMayFail    \* the machine may lose power, not only the process

ASSUME StoreAssumption ==
    /\ Torn \notin Value
    /\ None \notin [data : Value \cup {Torn}, synced : BOOLEAN]
    /\ PowerMayFail \in BOOLEAN

VARIABLES
    name,     \* the file under each identity's name, as open() finds it
    disk,     \* the same, as it stands on the disk
    put,      \* each call of put(): idle, or how far it has come
    past      \* history: the values renamed into place, for each identity

vars == <<name, disk, put, past>>

File == [data : Value \cup {Torn}, synced : BOOLEAN]
Idle == [at |-> "idle"]

\* mkstemp(): an empty file of its own.
Open(w, k, v) ==
    /\ put[w] = Idle
    /\ put' = [put EXCEPT ![w] =
         [at |-> "open", key |-> k, value |-> v, tmp |-> [data |-> Torn, synced |-> FALSE]]]
    /\ UNCHANGED <<name, disk, past>>

\* json.dump(): the file is complete for whoever reads it, once it is written.
Dump(w) ==
    /\ put[w].at = "open"
    /\ put' = [put EXCEPT ![w].at = "dumped", ![w].tmp.data = put[w].value]
    /\ UNCHANGED <<name, disk, past>>

\* Mutant: flush() and no fsync().
FlushOnly(w) ==
    /\ put[w].at = "dumped"
    /\ put' = [put EXCEPT ![w].at = "synced"]
    /\ UNCHANGED <<name, disk, past>>

\* flush(), fsync().
Sync(w) ==
    /\ put[w].at = "dumped"
    /\ put' = [put EXCEPT ![w].at = "synced", ![w].tmp.synced = TRUE]
    /\ UNCHANGED <<name, disk, past>>

\* Mutant: the file is renamed as soon as there is one.
ReplaceEarly(w) ==
    /\ put[w] # Idle
    /\ name' = [name EXCEPT ![put[w].key] = put[w].tmp]
    /\ past' = [past EXCEPT ![put[w].key] = @ \cup {put[w].value}]
    /\ put' = [put EXCEPT ![w] = Idle]
    /\ UNCHANGED disk

\* os.replace(), and put() returns.
Replace(w) ==
    /\ put[w].at = "synced"
    /\ name' = [name EXCEPT ![put[w].key] = put[w].tmp]
    /\ past' = [past EXCEPT ![put[w].key] = @ \cup {put[w].value}]
    /\ put' = [put EXCEPT ![w] = Idle]
    /\ UNCHANGED disk

\* Any of the calls raises: the temporary file is removed and put() raises;
\* or the process dies, and the temporary file is nobody's.
Abandon(w) ==
    /\ put[w] # Idle
    /\ put' = [put EXCEPT ![w] = Idle]
    /\ UNCHANGED <<name, disk, past>>

\* The kernel writes a directory entry back.
WriteBack(k) ==
    /\ disk' = [disk EXCEPT ![k] = name[k]]
    /\ UNCHANGED <<name, put, past>>

\* What is left of a file after a power cut.
Left(file) ==
    IF file = None \/ file.synced THEN {file} ELSE {file, [file EXCEPT !.data = Torn]}

PowerCut ==
    /\ PowerMayFail
    /\ \E left \in [Identity -> UNION {Left(disk[k]) : k \in Identity}] :
         /\ \A k \in Identity : left[k] \in Left(disk[k])
         /\ name' = left /\ disk' = left
    /\ put' = [w \in Writer |-> Idle]
    /\ UNCHANGED past

Init ==
    /\ name = [k \in Identity |-> None]
    /\ disk = [k \in Identity |-> None]
    /\ put = [w \in Writer |-> Idle]
    /\ past = [k \in Identity |-> {None}]

Next ==
    \/ \E w \in Writer :
         \/ \E k \in Identity, v \in Value : Open(w, k, v)
         \/ Dump(w) \/ Sync(w) \/ Replace(w) \/ Abandon(w)
    \/ \E k \in Identity : WriteBack(k)
    \/ PowerCut

Spec == Init /\ [][Next]_vars

-----------------------------------------------------------------------------

TypeOK ==
    /\ name \in [Identity -> File \cup {None}]
    /\ disk \in [Identity -> File \cup {None}]
    /\ put \in [Writer -> {Idle} \cup
                 [at : {"open", "dumped", "synced"}, key : Identity, value : Value, tmp : File]]
    /\ past \in [Identity -> SUBSET (Value \cup {None})]

\* get(): the record under a name.
Stored(file) == IF file = None THEN None ELSE file.data

\* get() never meets a truncated file, whatever put() was interrupted and
\* wherever: what is under a name is a whole record that was put there.
ReadsAreWhole == \A k \in Identity : Stored(name[k]) \in past[k]

\* What a power cut would leave is whole too.
DiskIsWhole ==
    \A k \in Identity : \A file \in Left(disk[k]) : Stored(file) \in past[k]

\* The store is an atomic one: put() takes effect at one instant, or never.
Atomic == INSTANCE AtomicStore WITH record <- [k \in Identity |-> Stored(name[k])]

IsAtomic == Atomic!Spec
=============================================================================

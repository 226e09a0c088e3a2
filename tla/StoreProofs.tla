----------------------------- MODULE StoreProofs -----------------------------
(***************************************************************************)
(* Theorems about FileStore, for every set of identities, records and      *)
(* writers: no record is ever seen in part, and put() is atomic.           *)
(***************************************************************************)
EXTENDS FileStore, TLAPS

Busy == [at : {"open", "dumped", "synced"}, key : Identity, value : Value, tmp : File]

\* A file in its place: whole, synced, and one that was put there.
Sound(file, k) == file # None => file.synced = TRUE /\ file.data \in past[k]

\* How far a call of put() has come tells what its temporary file holds.
Written ==
    \A w \in Writer :
        /\ put[w].at \in {"dumped", "synced"} => put[w].tmp.data = put[w].value
        /\ put[w].at = "synced" => put[w].tmp.synced = TRUE

Inv ==
    /\ TypeOK
    /\ Written
    /\ \A k \in Identity : None \in past[k] /\ Sound(name[k], k) /\ Sound(disk[k], k)

\* A call of put() that is under way has a key, a value and a file.
LEMMA BusyWriter ==
    ASSUME TypeOK, NEW w \in Writer, put[w] # Idle
    PROVE  put[w] \in Busy
BY DEF TypeOK, Busy

\* A call of put() that is not under way has none of the three.
LEMMA IdleIsNotBusy == Idle \notin Busy /\ Idle.at = "idle"
BY DEF Idle, Busy

\* At the start there is no file and no call under way.
LEMMA InitInv == Init => Inv
BY DEF Init, Inv, TypeOK, Written, Sound, Idle

\* Every system call, interruption and power cut keeps the invariant.
LEMMA NextInv == Inv /\ [Next]_vars => Inv'
<1> SUFFICES ASSUME Inv, [Next]_vars PROVE Inv'
  OBVIOUS
<1> USE DEF Inv
<1>1. ASSUME NEW w \in Writer, NEW k \in Identity, NEW v \in Value, Open(w, k, v)
      PROVE  Inv'
  <2> DEFINE p == [at |-> "open", key |-> k, value |-> v,
                   tmp |-> [data |-> Torn, synced |-> FALSE]]
  <2>1. p \in Busy
    BY DEF Busy, File
  <2>2. put' = [put EXCEPT ![w] = p]
    BY <1>1 DEF Open
  <2>3. TypeOK'
    BY <1>1, <2>1, <2>2 DEF Open, TypeOK, Busy
  <2>4. Written'
    BY <2>2 DEF Written, TypeOK
  <2> QED BY <1>1, <2>3, <2>4 DEF Open, Sound
<1>2. ASSUME NEW w \in Writer, Dump(w)  PROVE Inv'
  <2>1. put[w] \in Busy
    BY <1>2, BusyWriter, IdleIsNotBusy DEF Dump
  <2> DEFINE p == [put[w] EXCEPT !.at = "dumped", !.tmp = [put[w].tmp EXCEPT !.data = put[w].value]]
  <2>2. p \in Busy /\ p.at = "dumped" /\ p.tmp.data = p.value
    BY <2>1 DEF Busy, File
  <2>3. put' = [put EXCEPT ![w] = p]
    BY <1>2 DEF Dump, TypeOK
  <2>4. TypeOK'
    BY <1>2, <2>2, <2>3 DEF Dump, TypeOK, Busy
  <2>5. Written'
    BY <2>2, <2>3 DEF Written, TypeOK
  <2> QED BY <1>2, <2>4, <2>5 DEF Dump, Sound
<1>3. ASSUME NEW w \in Writer, Sync(w)  PROVE Inv'
  <2>1. put[w] \in Busy /\ put[w].tmp.data = put[w].value
    BY <1>3, BusyWriter, IdleIsNotBusy DEF Sync, Written
  <2> DEFINE p == [put[w] EXCEPT !.at = "synced", !.tmp = [put[w].tmp EXCEPT !.synced = TRUE]]
  <2>2. p \in Busy /\ p.at = "synced" /\ p.tmp.data = p.value /\ p.tmp.synced = TRUE
    BY <2>1 DEF Busy, File
  <2>3. put' = [put EXCEPT ![w] = p]
    BY <1>3 DEF Sync, TypeOK
  <2>4. TypeOK'
    BY <1>3, <2>2, <2>3 DEF Sync, TypeOK, Busy
  <2>5. Written'
    BY <2>2, <2>3 DEF Written, TypeOK
  <2> QED BY <1>3, <2>4, <2>5 DEF Sync, Sound
<1>4. ASSUME NEW w \in Writer, Replace(w)  PROVE Inv'
  <2> DEFINE k == put[w].key
  <2>1. /\ put[w] \in Busy
        /\ put[w].tmp.data = put[w].value
        /\ put[w].tmp.synced = TRUE
    BY <1>4, BusyWriter, IdleIsNotBusy DEF Replace, Written
  <2>2. k \in Identity /\ put[w].value \in Value /\ put[w].tmp \in File
    BY <2>1 DEF Busy
  <2>3. TypeOK'
    BY <1>4, <2>2 DEF Replace, TypeOK
  <2>4. Written'
    BY <1>4, IdleIsNotBusy DEF Replace, Written, TypeOK
  <2>5. ASSUME NEW j \in Identity
        PROVE  None \in past'[j] /\ Sound(name[j], j)' /\ Sound(disk[j], j)'
    <3>1. past[j] \subseteq past'[j] /\ (j = k => put[w].value \in past'[j])
      BY <1>4, <2>2 DEF Replace, TypeOK
    <3>2. name'[j] = IF j = k THEN put[w].tmp ELSE name[j]
      BY <1>4, <2>2 DEF Replace, TypeOK
    <3>3. Sound(name[j], j)'
      BY <2>1, <3>1, <3>2 DEF Sound
    <3> QED BY <1>4, <3>1, <3>3 DEF Replace, Sound
  <2> QED BY <2>3, <2>4, <2>5
<1>5. ASSUME NEW w \in Writer, Abandon(w)  PROVE Inv'
  <2>1. Written'
    BY <1>5, IdleIsNotBusy DEF Abandon, Written, TypeOK
  <2>2. TypeOK'
    BY <1>5 DEF Abandon, TypeOK
  <2> QED BY <1>5, <2>1, <2>2 DEF Abandon, Sound
<1>6. ASSUME NEW k \in Identity, WriteBack(k)  PROVE Inv'
  BY <1>6 DEF WriteBack, TypeOK, Written, Sound
<1>7. ASSUME PowerCut  PROVE Inv'
  <2>1. PICK left \in [Identity -> UNION {Left(disk[k]) : k \in Identity}] :
          /\ \A k \in Identity : left[k] \in Left(disk[k])
          /\ name' = left /\ disk' = left
    BY <1>7 DEF PowerCut
  <2>2. \A k \in Identity : left[k] = disk[k]
    BY <2>1 DEF Left, Sound
  <2>3. name' = disk /\ disk' = disk
    BY <2>1, <2>2 DEF TypeOK
  <2>4. Written'
    BY <1>7, IdleIsNotBusy DEF PowerCut, Written
  <2>5. TypeOK'
    BY <1>7, <2>3 DEF PowerCut, TypeOK
  <2> QED BY <1>7, <2>3, <2>4, <2>5 DEF PowerCut, Sound
<1>8. CASE UNCHANGED vars
  BY <1>8 DEF vars, TypeOK, Written, Sound
<1> QED BY <1>1, <1>2, <1>3, <1>4, <1>5, <1>6, <1>7, <1>8 DEF Next

LEMMA Invariant == Spec => []Inv
BY InitInv, NextInv, PTL DEF Spec

\* get() meets a whole record or none, wherever put() was interrupted, and so
\* would the next process after a power cut.
THEOREM WholeRecords == Spec => [](TypeOK /\ ReadsAreWhole /\ DiskIsWhole)
<1>1. Inv => TypeOK /\ ReadsAreWhole /\ DiskIsWhole
  BY DEF Inv, ReadsAreWhole, DiskIsWhole, Stored, Left, Sound
<1> QED BY <1>1, Invariant, PTL

\* The next process reads a whole record or none of what a power cut at any
\* moment of put() leaves on the disk.
THEOREM DiskStaysWhole == Spec => []DiskIsWhole
BY WholeRecords, PTL

-----------------------------------------------------------------------------
(* put() is atomic.                                                        *)

Mapped == [k \in Identity |-> Stored(name[k])]

\* A step of put() is the abstract Put when it is the renaming, a power cut is
\* a fall back, and every other step leaves what can be read as it was.
LEMMA StepIsAtomic == Inv /\ [Next]_vars => [Atomic!Next]_(Atomic!vars)
<1> SUFFICES ASSUME Inv, [Next]_vars
             PROVE  Atomic!Next \/ UNCHANGED <<Mapped, past>>
  BY DEF Atomic!vars, Mapped
<1>1. ASSUME NEW w \in Writer, NEW k \in Identity, NEW v \in Value, Open(w, k, v)
      PROVE  UNCHANGED <<Mapped, past>>
  BY <1>1 DEF Open, Mapped
<1>2. ASSUME NEW w \in Writer, Dump(w) \/ Sync(w) \/ Abandon(w)
      PROVE  UNCHANGED <<Mapped, past>>
  BY <1>2 DEF Dump, Sync, Abandon, Mapped
<1>3. ASSUME NEW w \in Writer, Replace(w)  PROVE Atomic!Next
  <2> DEFINE k == put[w].key
             v == put[w].value
  <2>1. /\ put[w] \in Busy
        /\ put[w].tmp.data = v
    BY <1>3, BusyWriter, IdleIsNotBusy DEF Replace, Inv, Written
  <2>2. k \in Identity /\ v \in Value /\ put[w].tmp \in File /\ put[w].tmp # None
    BY <2>1, StoreAssumption DEF Busy, File
  <2>3. Mapped' = [Mapped EXCEPT ![k] = v]
    BY <1>3, <2>1, <2>2 DEF Replace, Mapped, Stored, Inv, TypeOK
  <2>4. Atomic!Put(k, v)
    BY <1>3, <2>3 DEF Atomic!Put, Replace, Mapped
  <2> QED BY <2>2, <2>4 DEF Atomic!Next
<1>4. ASSUME NEW k \in Identity, WriteBack(k)  PROVE UNCHANGED <<Mapped, past>>
  BY <1>4 DEF WriteBack, Mapped
<1>5. ASSUME PowerCut  PROVE Atomic!Next
  <2>1. PICK left \in [Identity -> UNION {Left(disk[k]) : k \in Identity}] :
          /\ \A k \in Identity : left[k] \in Left(disk[k])
          /\ name' = left
    BY <1>5 DEF PowerCut
  <2>2. \A k \in Identity : name'[k] = disk[k]
    BY <2>1 DEF Left, Inv, Sound
  <2>3. \A k \in Identity : Mapped'[k] \in past[k]
    BY <2>2 DEF Mapped, Stored, Inv, Sound
  <2>4. Mapped' = [k \in Identity |-> Mapped'[k]]
    BY DEF Mapped
  <2>5. Atomic!FallBack
    BY <1>5, <2>3, <2>4 DEF Atomic!FallBack, PowerCut, Mapped
  <2> QED BY <2>5 DEF Atomic!Next
<1>6. CASE UNCHANGED vars
  BY <1>6 DEF vars, Mapped
<1> QED BY <1>1, <1>2, <1>3, <1>4, <1>5, <1>6 DEF Next

\* FileStore implements AtomicStore: put() takes effect at one instant or
\* never, and without power cuts what it wrote stays until the next put().
THEOREM Atomicity == Spec => IsAtomic
<1>1. Init => Atomic!Init
  BY DEF Init, Atomic!Init, Stored
<1> QED BY <1>1, StepIsAtomic, Invariant, PTL DEF Spec, IsAtomic, Atomic!Spec
=============================================================================

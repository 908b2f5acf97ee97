--------------------------- MODULE NeoCacheProofs ---------------------------
(***************************************************************************)
(* The proofs about NeoCache, for any number of loaders, versions and      *)
(* blocks.                                                                 *)
(*                                                                         *)
(* Who opens a file empties it and owes it all its blocks.  As long as no  *)
(* write is lost, a missing block is owed by somebody (Owed), except in a  *)
(* model whose only writer was killed: then there is no configuration yet, *)
(* and whoever will add one first opens the model again (Abandoned).       *)
(***************************************************************************)
EXTENDS NeoCache, TLAPS

Owes(l, f, b) == step[l] = "write" /\ target[l] = f /\ block[l] <= b

\* No loader is beyond the opening of the model.
Abandoned(f) ==
  /\ f = "model" /\ "config" \notin exists
  /\ \A l \in Loaders : /\ step[l] # "write"
                        /\ step[l] = "open" => target[l] = "model"

Owed ==
  ~torn =>
    \A f \in exists : \A b \in 1..LastBlock :
      disk[f][b] = Missing => Abandoned(f) \/ \E l \in Loaders : Owes(l, f, b)

\* What was read is of some version the package has had, and so is what was
\* written.
Read1(l) ==
  /\ \A f \in Files : bytes[l][f] \in 0..package
  /\ step[l] = "read" /\ target[l] = "config" => bytes[l]["model"] # Missing
  /\ step[l] \in {"open", "write"} => \A f \in Files : bytes[l][f] # Missing

DiskInv == \A f \in Files : \A b \in 1..LastBlock : disk[f][b] \in 0..package

\* A loader's files exist once it has opened them.
OpenInv ==
  \A l \in Loaders :
    /\ step[l] = "write" => target[l] \in exists
    /\ step[l] \in {"open", "write"} /\ target[l] = "config" => "model" \in exists
    /\ step[l] = "return" => exists = Files

IInv == TypeOK /\ (\A l \in Loaders : Read1(l)) /\ DiskInv /\ OpenInv /\ Owed

LEMMA Constants ==
  /\ MaxVersion \in Nat \ {0} /\ LastBlock \in Nat \ {0}
  /\ 1 \in Versions /\ 1 \in 1..LastBlock /\ Missing \notin Versions
  /\ \A v \in Versions : v \in Nat /\ v >= 1
BY NeoAssumption DEF Versions, Missing

-----------------------------------------------------------------------------
(* Types                                                                   *)

\* Where Advance leads.
LEMMA AdvanceTypes ==
  ASSUME TypeOK, NEW l \in Loaders, Advance(l)
  PROVE  /\ step' \in [Loaders -> {"idle", "test", "read", "open", "write", "return"}]
         /\ target' \in [Loaders -> Files]
         /\ block' \in [Loaders -> 1..LastBlock]
<1>1. step \in [Loaders -> {"idle", "test", "read", "open", "write", "return"}]
      /\ target \in [Loaders -> Files] /\ block \in [Loaders -> 1..LastBlock]
  BY DEF TypeOK
<1>2. CASE block[l] < LastBlock
  <2>1. block' = [block EXCEPT ![l] = block[l] + 1] /\ UNCHANGED <<step, target>>
    BY <1>2, <1>1, Constants DEF Advance
  <2>2. block[l] + 1 \in 1..LastBlock
    BY <1>1, <1>2, Constants
  <2> QED BY <1>1, <2>1, <2>2
<1>3. CASE ~(block[l] < LastBlock)
  <2>1. /\ block' = block
        /\ \/ target' = [target EXCEPT ![l] = "config"] /\ step' = [step EXCEPT ![l] = "open"]
           \/ target' = target /\ step' = [step EXCEPT ![l] = "return"]
    BY <1>3 DEF Advance
  <2> QED BY <1>1, <2>1 DEF Files
<1> QED BY <1>2, <1>3

\* One step of a loader, or of the package, keeps the types.
LEMMA TypeStep == TypeOK /\ [Next]_vars => TypeOK'
<1> SUFFICES ASSUME TypeOK, [Next]_vars PROVE TypeOK'
  OBVIOUS
<1>1. CASE UNCHANGED vars
  BY <1>1 DEF TypeOK, vars
<1>2. CASE Export
  BY <1>2, Constants DEF TypeOK, Export, Versions
<1>3. ASSUME NEW l \in Loaders,
             Parse(l) \/ Test(l) \/ Fail(l) \/ Return(l) \/ Crash(l)
      PROVE  TypeOK'
  BY <1>3 DEF TypeOK, Parse, Test, Fail, Return, Crash, Files
<1>4. ASSUME NEW l \in Loaders, Read(l) PROVE TypeOK'
  BY <1>4 DEF TypeOK, Read, Files
<1>5. ASSUME NEW l \in Loaders, Open(l) PROVE TypeOK'
  BY <1>5, Constants DEF TypeOK, Open, Empty
<1>6. ASSUME NEW l \in Loaders, WriteBlock(l) PROVE TypeOK'
  BY <1>6, AdvanceTypes DEF TypeOK, WriteBlock
<1>7. ASSUME NEW l \in Loaders, LoseBlock(l) PROVE TypeOK'
  BY <1>7, AdvanceTypes DEF TypeOK, LoseBlock
<1> QED BY <1>1, <1>2, <1>3, <1>4, <1>5, <1>6, <1>7 DEF Next

LEMMA InitTypes == Init => TypeOK
<1>1. Empty \in [1..LastBlock -> Versions \cup {Missing}]
  BY DEF Empty
<1>2. [f \in Files |-> Empty] \in [Files -> [1..LastBlock -> Versions \cup {Missing}]]
  BY <1>1
<1>3. "model" \in Files
  BY DEF Files
<1>4. [l \in Loaders |-> [f \in Files |-> Missing]]
        \in [Loaders -> [Files -> Versions \cup {Missing}]]
  OBVIOUS
<1>5. ASSUME Init
      PROVE  /\ package \in Versions /\ exists \subseteq Files /\ torn \in BOOLEAN
             /\ step \in [Loaders -> {"idle", "test", "read", "open", "write", "return"}]
             /\ target \in [Loaders -> Files] /\ block \in [Loaders -> 1..LastBlock]
  BY <1>3, <1>5, Constants DEF Init
<1> QED BY <1>2, <1>4, <1>5 DEF Init, TypeOK

\* Every variable has its type.
THEOREM TypeCorrect == Spec => []TypeOK
BY InitTypes, TypeStep, PTL DEF Spec

-----------------------------------------------------------------------------
(* The invariant                                                           *)

LEMMA InitIInv == Init => IInv
<1> SUFFICES ASSUME Init PROVE IInv
  OBVIOUS
<1>1. TypeOK
  BY InitTypes
<1>2. (\A l \in Loaders : Read1(l)) /\ DiskInv /\ OpenInv /\ Owed
  BY DEF Init, Read1, DiskInv, OpenInv, Owed, Empty, Missing, Files
<1> QED BY <1>1, <1>2 DEF IInv

\* What a loader has read stays of a version the package has had.
LEMMA ReadKeeps ==
  ASSUME IInv, [Next]_vars
  PROVE  (\A l \in Loaders : Read1(l))' /\ DiskInv'
<1> USE Constants
<1>1. CASE UNCHANGED vars
  BY <1>1 DEF IInv, Read1, DiskInv, vars
<1>2. CASE Export
  BY <1>2 DEF IInv, TypeOK, Read1, DiskInv, Export, Versions
<1>3. ASSUME NEW k \in Loaders,
             Parse(k) \/ Test(k) \/ Fail(k) \/ Return(k) \/ Crash(k)
      PROVE  (\A l \in Loaders : Read1(l))' /\ DiskInv'
  BY <1>3 DEF IInv, TypeOK, Read1, DiskInv, Parse, Test, Fail, Return, Crash, Files
<1>4. ASSUME NEW k \in Loaders, Read(k) PROVE (\A l \in Loaders : Read1(l))' /\ DiskInv'
  <2>1. DiskInv'
    BY <1>4 DEF IInv, DiskInv, Read
  <2>2. ASSUME NEW l \in Loaders PROVE Read1(l)'
    <3>1. package' = package /\ package \in 0..package /\ package # Missing
      BY <1>4 DEF IInv, TypeOK, Read, Missing, Versions
    <3>2. CASE l # k
      BY <1>4, <3>1, <3>2 DEF IInv, TypeOK, Read1, Read
    <3>3. CASE l = k
      BY <1>4, <3>1, <3>3 DEF IInv, TypeOK, Read1, Read, Files
    <3> QED BY <3>2, <3>3
  <2> QED BY <2>1, <2>2
<1>5. ASSUME NEW k \in Loaders, Open(k) PROVE (\A l \in Loaders : Read1(l))' /\ DiskInv'
  <2>1. Missing \in 0..package
    BY DEF IInv, TypeOK, Missing, Versions
  <2>2. DiskInv'
    BY <1>5, <2>1 DEF IInv, TypeOK, DiskInv, Open, Empty
  <2>3. (\A l \in Loaders : Read1(l))'
    BY <1>5 DEF IInv, TypeOK, Read1, Open
  <2> QED BY <2>2, <2>3
<1>6. ASSUME NEW k \in Loaders, WriteBlock(k) \/ LoseBlock(k)
      PROVE  (\A l \in Loaders : Read1(l))' /\ DiskInv'
  <2>1. DiskInv'
    <3>1. bytes[k][target[k]] \in 0..package /\ package' = package
      BY <1>6 DEF IInv, TypeOK, Read1, WriteBlock, LoseBlock
    <3>2. \A f \in Files : \A b \in 1..LastBlock :
            disk'[f][b] \in {disk[f][b], bytes[k][target[k]]}
      <4>1. disk \in [Files -> [1..LastBlock -> Versions \cup {Missing}]]
        BY DEF IInv, TypeOK
      <4>2. CASE WriteBlock(k)
        BY <4>1, <4>2 DEF WriteBlock
      <4>3. CASE LoseBlock(k)
        BY <4>3 DEF LoseBlock
      <4> QED BY <1>6, <4>2, <4>3
    <3> QED BY <3>1, <3>2 DEF IInv, DiskInv
  <2>2. (\A l \in Loaders : Read1(l))'
    BY <1>6 DEF IInv, TypeOK, Read1, WriteBlock, LoseBlock, Advance
  <2> QED BY <2>1, <2>2
<1> QED BY <1>1, <1>2, <1>3, <1>4, <1>5, <1>6 DEF Next

\* No file is removed, and a loader opens its files one after the other.
LEMMA OpenKeeps ==
  ASSUME IInv, [Next]_vars
  PROVE  OpenInv'
<1>1. CASE UNCHANGED vars
  BY <1>1 DEF IInv, OpenInv, vars
<1>2. CASE Export
  BY <1>2 DEF IInv, OpenInv, Export
<1>3. ASSUME NEW k \in Loaders,
             Parse(k) \/ Test(k) \/ Fail(k) \/ Return(k) \/ Crash(k) \/ Read(k)
      PROVE  OpenInv'
  BY <1>3 DEF IInv, TypeOK, OpenInv, Parse, Test, Fail, Return, Crash, Read, Files
<1>4. ASSUME NEW k \in Loaders, Open(k) PROVE OpenInv'
  BY <1>4 DEF IInv, TypeOK, OpenInv, Open, Files
<1>5. ASSUME NEW k \in Loaders, WriteBlock(k) \/ LoseBlock(k) PROVE OpenInv'
  <2>1. exists' = exists /\ Advance(k) /\ step[k] = "write"
    BY <1>5 DEF WriteBlock, LoseBlock
  <2> QED BY <2>1 DEF IInv, TypeOK, OpenInv, Advance, Files
<1> QED BY <1>1, <1>2, <1>3, <1>4, <1>5 DEF Next

\* A step of a loader that neither opens nor writes leaves every debt alone.
LEMMA OwedQuiet ==
  ASSUME IInv, NEW k \in Loaders,
         Parse(k) \/ Test(k) \/ Fail(k) \/ Return(k) \/ Read(k)
  PROVE  Owed'
<1>1. UNCHANGED <<exists, disk, block, torn>>
  BY DEF Parse, Test, Fail, Return, Read
<1>2. /\ step[k] # "write" /\ step'[k] # "write"
      /\ \A l \in Loaders : l # k => step'[l] = step[l] /\ target'[l] = target[l]
      /\ step'[k] = "open" => target'[k] = "model"
  BY DEF IInv, TypeOK, Parse, Test, Fail, Return, Read
<1>3. ASSUME NEW f, NEW b, NEW l \in Loaders, Owes(l, f, b) PROVE Owes(l, f, b)'
  BY <1>1, <1>2, <1>3 DEF Owes
<1>4. ASSUME NEW f, Abandoned(f) PROVE Abandoned(f)'
  BY <1>1, <1>2, <1>4 DEF Abandoned
<1> QED BY <1>1, <1>3, <1>4 DEF IInv, Owed

\* Who is killed leaves debts only where the model can be abandoned.
LEMMA OwedCrash ==
  ASSUME IInv, NEW k \in Loaders, Crash(k)
  PROVE  Owed'
<1> SUFFICES ASSUME ~torn', NEW f \in exists, NEW b \in 1..LastBlock, disk[f][b] = Missing
             PROVE  Abandoned(f)' \/ \E l \in Loaders : Owes(l, f, b)'
  BY DEF Owed, Crash
<1>1. /\ UNCHANGED <<exists, disk, target, block>> /\ ~torn
      /\ \A l \in Loaders : step'[l] = IF l = k THEN "idle" ELSE step[l]
  BY DEF Crash, IInv, TypeOK
<1>2. f \in Files
  BY DEF IInv, TypeOK
<1>3. Abandoned(f) \/ \E l \in Loaders : Owes(l, f, b)
  BY <1>1 DEF IInv, Owed
<1>4. CASE Abandoned(f)
  BY <1>1, <1>4 DEF Abandoned
<1>5. ASSUME NEW l \in Loaders, Owes(l, f, b) PROVE Abandoned(f)' \/ Owes(l, f, b)'
  <2>1. CASE l # k
    BY <1>1, <1>5, <2>1 DEF Owes
  <2>2. CASE l = k
    <3>1. step[k] = "write" /\ "config" \notin exists /\ Extracting = {k}
      BY <1>5, <2>2 DEF Owes, Crash
    <3>2. f = "model"
      BY <1>2, <3>1 DEF Files
    <3>3. \A m \in Loaders : m # k => step[m] \notin {"open", "write"}
      BY <3>1 DEF Extracting
    <3> QED BY <1>1, <3>1, <3>2, <3>3 DEF Abandoned
  <2> QED BY <2>1, <2>2
<1> QED BY <1>3, <1>4, <1>5

\* Who opens a file owes it every block.
LEMMA OwedOpen ==
  ASSUME IInv, NEW k \in Loaders, Open(k)
  PROVE  Owed'
<1>1. /\ exists' = exists \cup {target[k]} /\ UNCHANGED <<target, torn>>
      /\ step[k] = "open" /\ step'[k] = "write" /\ block'[k] = 1
      /\ \A l \in Loaders : l # k => step'[l] = step[l] /\ block'[l] = block[l]
      /\ \A f \in Files : f # target[k] => disk'[f] = disk[f]
  BY DEF Open, IInv, TypeOK
<1> SUFFICES ASSUME ~torn, NEW f \in exists', NEW b \in 1..LastBlock, disk'[f][b] = Missing
             PROVE  \E l \in Loaders : Owes(l, f, b)'
  BY <1>1 DEF Owed
<1>2. f \in Files /\ target[k] \in Files
  BY <1>1 DEF IInv, TypeOK
<1>3. CASE f = target[k]
  <2>1. Owes(k, f, b)'
    BY <1>1, <1>3, Constants DEF Owes
  <2> QED BY <2>1
<1>4. CASE f # target[k]
  <2>1. f \in exists /\ disk[f][b] = Missing
    BY <1>1, <1>2, <1>4
  <2>2. ~Abandoned(f)
    BY <1>1, <1>2, <1>4 DEF Abandoned, Files
  <2>3. PICK l \in Loaders : Owes(l, f, b)
    BY <2>1, <2>2 DEF IInv, Owed
  <2>4. l # k
    BY <2>3, <1>1 DEF Owes
  <2>5. Owes(l, f, b)'
    BY <2>3, <2>4, <1>1 DEF Owes
  <2> QED BY <2>5
<1> QED BY <1>3, <1>4

\* Who writes a block has one debt less, and no other changes.
LEMMA OwedWrite ==
  ASSUME IInv, NEW k \in Loaders, WriteBlock(k)
  PROVE  Owed'
<1>1. /\ UNCHANGED <<exists, torn>> /\ step[k] = "write" /\ Advance(k)
      /\ target[k] \in Files /\ block[k] \in 1..LastBlock
  BY DEF WriteBlock, IInv, TypeOK
<1>2. /\ \A l \in Loaders : l # k =>
           step'[l] = step[l] /\ target'[l] = target[l] /\ block'[l] = block[l]
      /\ block[k] < LastBlock =>
           step'[k] = "write" /\ target'[k] = target[k] /\ block'[k] = block[k] + 1
  BY <1>1 DEF Advance, IInv, TypeOK
<1>3. bytes[k][target[k]] # Missing
  BY <1>1 DEF IInv, Read1
<1>4. \A f \in Files : \A b \in 1..LastBlock :
        disk'[f][b] = IF f = target[k] /\ b = block[k]
                      THEN bytes[k][target[k]] ELSE disk[f][b]
  BY DEF WriteBlock, IInv, TypeOK
<1> SUFFICES ASSUME ~torn, NEW f \in exists, NEW b \in 1..LastBlock, disk'[f][b] = Missing
             PROVE  \E l \in Loaders : Owes(l, f, b)'
  BY <1>1 DEF Owed
<1>5. f \in Files
  BY DEF IInv, TypeOK
<1>6. disk[f][b] = Missing /\ ~(f = target[k] /\ b = block[k])
  BY <1>3, <1>4, <1>5
<1>7. PICK l \in Loaders : Owes(l, f, b)
  <2>1. ~Abandoned(f)
    BY <1>1 DEF Abandoned
  <2> QED BY <1>6, <2>1 DEF IInv, Owed
<1>8. CASE l # k
  <2>1. Owes(l, f, b)'
    BY <1>7, <1>8, <1>2 DEF Owes
  <2> QED BY <2>1
<1>9. CASE l = k
  <2>1. f = target[k] /\ block[k] < b /\ b <= LastBlock
    BY <1>1, <1>6, <1>7, <1>9 DEF Owes
  <2>2. Owes(k, f, b)'
    BY <1>1, <1>2, <2>1, Constants DEF Owes
  <2> QED BY <2>2
<1> QED BY <1>8, <1>9

\* The invariant holds in every reachable state.
THEOREM Inductive == Spec => []IInv
<1>1. IInv /\ [Next]_vars => IInv'
  <2> SUFFICES ASSUME IInv, [Next]_vars PROVE IInv'
    OBVIOUS
  <2>1. TypeOK'
    BY TypeStep DEF IInv
  <2>2. Owed'
    <3>1. CASE UNCHANGED vars
      BY <3>1 DEF IInv, Owed, Owes, Abandoned, vars
    <3>2. CASE Export
      BY <3>2 DEF IInv, Owed, Owes, Abandoned, Export
    <3>3. ASSUME NEW k \in Loaders, LoseBlock(k) PROVE Owed'
      BY <3>3 DEF LoseBlock, Owed
    <3> QED BY <3>1, <3>2, <3>3, OwedQuiet, OwedCrash, OwedOpen, OwedWrite DEF Next
  <2> QED BY <2>1, <2>2, ReadKeeps, OpenKeeps DEF IInv
<1> QED BY InitIInv, <1>1, PTL DEF Spec

\* Both files are whole when a loader goes on to the voice, however many have
\* written them at once, provided that the package was never replaced, no write
\* was lost or broken off for good, and nobody is writing them at that moment: a
\* loader does not wait for another that is (NeoPrepared shows it).
THEOREM HandedOverWholeHolds == Spec => []HandedOverWhole
<1>1. IInv => HandedOverWhole
  <2> SUFFICES ASSUME IInv, NEW k \in Loaders, step[k] = "return", Extracting = {},
                      package = 1, ~torn, NEW f \in Files
               PROVE  Whole(f)
    BY DEF HandedOverWhole, Prepared
  <2>1. exists = Files
    BY DEF IInv, OpenInv
  <2>2. \A l \in Loaders : step[l] # "write"
    BY DEF Extracting
  <2>3. ASSUME NEW b \in 1..LastBlock PROVE disk[f][b] = 1
    <3>1. ~Abandoned(f) /\ \A l \in Loaders : ~Owes(l, f, b)
      BY <2>1, <2>2 DEF Abandoned, Owes, Files
    <3>2. disk[f][b] # Missing
      BY <2>1, <3>1 DEF IInv, Owed
    <3>3. disk[f][b] \in 0..1
      BY DEF IInv, DiskInv
    <3> QED BY <3>2, <3>3 DEF Missing
  <2> QED BY <2>1, <2>3, Constants DEF Whole
<1> QED BY Inductive, <1>1, PTL

=============================================================================

------------------------------ MODULE NeoCache ------------------------------
(***************************************************************************)
(* The directory into which extractPackage() of src/cpp/neo_model.cpp      *)
(* unpacks one .neo package, its model first and then its configuration,   *)
(* and which is kept.  A loader is a worker of the server that loads a     *)
(* replica, outside every lock (ModelCache), or a run of the command line  *)
(* program: loaders share the directory of a package.                      *)
(***************************************************************************)
EXTENDS Integers

CONSTANTS
  Loaders,
  MaxVersion,   \* bound: how often the package is exported, once included
  LastBlock     \* a file is written block by block, from 1 to this one

ASSUME NeoAssumption == MaxVersion \in Nat \ {0} /\ LastBlock \in Nat \ {0}

Files == {"model", "config"}
Versions == 1..MaxVersion
Missing == 0   \* a block that is not written: the file ends before it, or has a hole

VARIABLES
  package,  \* the version of the package at neoPath
  exists,   \* the files that exist in outDir
  disk,     \* of which version each block of a file is
  step,     \* what each loader is about to do
  target,   \* with which of the files
  bytes,    \* modelBytes and metadataBytes, by their version
  block,    \* the next block to write
  torn      \* history: a write was lost, or broken off for good

vars == <<package, exists, disk, step, target, bytes, block, torn>>

TypeOK ==
  /\ package \in Versions /\ exists \subseteq Files
  /\ disk \in [Files -> [1..LastBlock -> Versions \cup {Missing}]]
  /\ step \in [Loaders -> {"idle", "test", "read", "open", "write", "return"}]
  /\ target \in [Loaders -> Files]
  /\ bytes \in [Loaders -> [Files -> Versions \cup {Missing}]]
  /\ block \in [Loaders -> 1..LastBlock]
  /\ torn \in BOOLEAN

Empty == [b \in 1..LastBlock |-> Missing]

Init ==
  /\ package = 1 /\ exists = {} /\ disk = [f \in Files |-> Empty]
  /\ step = [l \in Loaders |-> "idle"] /\ target = [l \in Loaders |-> "model"]
  /\ bytes = [l \in Loaders |-> [f \in Files |-> Missing]]
  /\ block = [l \in Loaders |-> 1] /\ torn = FALSE

\* The loaders that have found a file missing and not finished with them.
Extracting == {l \in Loaders : step[l] \in {"read", "open", "write"}}

-----------------------------------------------------------------------------

\* The package is exported again, under its name.
Export ==
  /\ package < MaxVersion
  /\ package' = package + 1
  /\ UNCHANGED <<exists, disk, step, target, bytes, block, torn>>

\* parsePackage(), inspectPackage() and the name of the directory.
Parse(l) ==
  /\ step[l] = "idle"
  /\ step' = [step EXCEPT ![l] = "test"]
  /\ UNCHANGED <<package, exists, disk, target, bytes, block, torn>>

MutTest(l) ==
  /\ step[l] = "test"
  /\ step' = [step EXCEPT ![l] = IF exists # {} THEN "return" ELSE "read"]
  /\ target' = [target EXCEPT ![l] = "model"]
  /\ UNCHANGED <<package, exists, disk, bytes, block, torn>>

\* Files are never removed, so that the two tests are as good as one.
Test(l) ==
  /\ step[l] = "test"
  /\ step' = [step EXCEPT ![l] = IF exists = Files THEN "return" ELSE "read"]
  /\ target' = [target EXCEPT ![l] = "model"]
  /\ UNCHANGED <<package, exists, disk, bytes, block, torn>>

\* readSectionBytes() of one section, then of the other.  In a package that was
\* exported again since Parse the sections are found, or reading fails (Fail).
Read(l) ==
  /\ step[l] = "read"
  /\ bytes' = [bytes EXCEPT ![l][target[l]] = package]
  /\ \/ /\ target[l] = "model"
        /\ target' = [target EXCEPT ![l] = "config"] /\ step' = step
     \/ /\ target[l] = "config"
        /\ target' = [target EXCEPT ![l] = "model"]
        /\ step' = [step EXCEPT ![l] = "open"]
  /\ UNCHANGED <<package, exists, disk, block, torn>>

\* The file is made, or made empty.
Open(l) ==
  /\ step[l] = "open"
  /\ exists' = exists \cup {target[l]}
  /\ disk' = [disk EXCEPT ![target[l]] = Empty]
  /\ step' = [step EXCEPT ![l] = "write"] /\ block' = [block EXCEPT ![l] = 1]
  /\ UNCHANGED <<package, target, bytes, torn>>

\* The directory cannot be made, the package not be read or the file not be
\* opened: an exception.
Fail(l) ==
  /\ step[l] \in {"test", "read", "open"}
  /\ step' = [step EXCEPT ![l] = "idle"]
  /\ UNCHANGED <<package, exists, disk, target, bytes, block, torn>>

\* Behind the last block of a file comes the other file, or the end.
Advance(l) ==
  \/ /\ block[l] < LastBlock
     /\ block' = [block EXCEPT ![l] = block[l] + 1]
     /\ UNCHANGED <<step, target>>
  \/ /\ block[l] = LastBlock
     /\ \/ /\ target[l] = "model"
           /\ target' = [target EXCEPT ![l] = "config"]
           /\ step' = [step EXCEPT ![l] = "open"]
        \/ /\ target[l] = "config"
           /\ step' = [step EXCEPT ![l] = "return"] /\ target' = target
     /\ block' = block

MutWriteBlock(l) ==
  /\ step[l] = "write"
  /\ disk' = [disk EXCEPT ![target[l]][block[l]] = bytes[l][target[l]]]
  /\ block' = [block EXCEPT ![l] = block[l] + 1]
  /\ UNCHANGED <<step, target>>
  /\ UNCHANGED <<package, exists, bytes, torn>>

WriteBlock(l) ==
  /\ step[l] = "write"
  /\ disk' = [disk EXCEPT ![target[l]][block[l]] = bytes[l][target[l]]]
  /\ Advance(l)
  /\ UNCHANGED <<package, exists, bytes, torn>>

\* A full disk: nobody looks whether the write succeeded.
LoseBlock(l) ==
  /\ step[l] = "write"
  /\ Advance(l)
  /\ torn' = TRUE
  /\ UNCHANGED <<package, exists, disk, bytes>>

\* The loader goes on to load the voice from the files.
Return(l) ==
  /\ step[l] = "return"
  /\ step' = [step EXCEPT ![l] = "idle"]
  /\ UNCHANGED <<package, exists, disk, target, bytes, block, torn>>

\* The loader's process is killed.  A model without a configuration will be
\* written again; a configuration that exists, or that another loader is about
\* to add to the model this one has emptied, makes it final.
Crash(l) ==
  /\ step[l] # "idle"
  /\ step' = [step EXCEPT ![l] = "idle"]
  /\ torn' = (torn \/ (step[l] = "write"
                         /\ ("config" \in exists \/ Extracting # {l})))
  /\ UNCHANGED <<package, exists, disk, target, bytes, block>>

Next ==
  \/ Export
  \/ \E l \in Loaders :
       \/ Parse(l) \/ Test(l) \/ Read(l) \/ Open(l) \/ Fail(l)
       \/ WriteBlock(l) \/ LoseBlock(l) \/ Return(l) \/ Crash(l)

Spec == Init /\ [][Next]_vars

-----------------------------------------------------------------------------

\* All blocks of the file are there and of one version.
Whole(f) ==
  f \in exists /\ \E v \in Versions : \A b \in 1..LastBlock : disk[f][b] = v

Prepared == \A f \in Files : Whole(f)

\* Of a package that was never replaced, a loader gets both files, and whole,
\* unless a write was lost or a loader is writing them at the moment: however
\* many loaders extract it at once, empty each other's files and write over them,
\* and although a loader was killed before it came to the configuration.
HandedOverWhole ==
  (\E l \in Loaders : step[l] = "return") /\ Extracting = {} /\ package = 1 /\ ~torn
    => Prepared

-----------------------------------------------------------------------------
(* What the documentation says and the code does not keep                  *)

\* neo-docs/neo-format.md: the cache spares the extraction if the package was
\* prepared already.  Whoever skips it finds both files whole.
SkippedWhenPrepared ==
  [][\A l \in Loaders : step[l] = "test" /\ step'[l] = "return" => Prepared]_vars
=============================================================================

------------------------- MODULE ConfigCommitProofs -------------------------
(***************************************************************************)
(* Proofs about ConfigCommit, for any number of commands, admin requests   *)
(* and starts, any number of failing steps, kills and power losses.        *)
(***************************************************************************)
EXTENDS ConfigCommit, TLAPS

-----------------------------------------------------------------------------
(* Who is where.  A job that changes Codex's files without the lock is a   *)
(* start that had nothing to write.                                        *)

PlacesInv ==
    /\ pc \in [Jobs -> Labels]
    /\ lock \in Jobs \cup {None}
    /\ \A j \in Jobs : pc[j] \in Holding => lock = j
    /\ lock # None => pc[lock] \in Holding \cup Applying
    /\ \A j \in Jobs : pc[j] \in Applying /\ lock # j => j \in Starts
    /\ \A j \in Jobs : pc[j] = "applied" => j \in Admins

FilesInv == file \in Files /\ disk \subseteq Files /\ file \in disk

CodexInv ==
    /\ catalog \in codex_disk /\ toml \in codex_disk
    /\ codex_disk \subseteq Contents \cup {Unmanaged}

MemoryInv ==
    /\ live \in Contents \cup {None}
    /\ local \in [Jobs -> Local]

CountsInv ==
    /\ faults \in 0..MaxFaults /\ crashes \in 0..MaxCrashes
    /\ stored \subseteq Jobs /\ spoiled \subseteq Jobs /\ quiet \subseteq Starts

TypesInv == PlacesInv /\ FilesInv /\ CodexInv /\ MemoryInv /\ CountsInv

LEMMA TypesInvTypeOK == TypesInv => TypeOK
  BY DEF TypesInv, PlacesInv, FilesInv, CodexInv, MemoryInv, CountsInv, TypeOK

USE DEF Jobs

LEMMA NoneIsNoJob == None \notin Jobs
  BY JobsAssumption

LEMMA FreshType == Fresh \in Contents
  BY DEF Fresh, Contents

LEMMA NothingType == Nothing \in Local
<1>1. Unmanaged \in Contents \cup {Unmanaged} /\ Missing \in Files
  BY DEF Files
<1>2. NoCodex \in Codex
  BY <1>1 DEF NoCodex, Codex
<1>3. Nothing.before \in Found
  BY <1>1, <1>2 DEF Nothing, Found
<1> QED
  BY <1>1, <1>2, <1>3, FreshType DEF Nothing, Local

\* Contents are closed under the edits of jobs.
LEMMA EditedType ==
    ASSUME NEW c \in Contents, NEW j \in Jobs
    PROVE  /\ Edited(j, c) \in Contents
           /\ Edited(j, c).edits = c.edits \cup {j}
  BY DEF Edited, Contents

LEMMA FlagsType ==
    ASSUME NEW c \in Contents, NEW e \in BOOLEAN, NEW n \in BOOLEAN
    PROVE  /\ [c EXCEPT !.enabled = e] \in Contents
           /\ [c EXCEPT !.enabled = e].edits = c.edits
           /\ [c EXCEPT !.confirmed = n] \in Contents
           /\ [c EXCEPT !.confirmed = n].edits = c.edits
           /\ [c EXCEPT !.enabled = e, !.confirmed = n] \in Contents
           /\ [c EXCEPT !.enabled = e, !.confirmed = n].edits = c.edits
  BY DEF Contents

LEMMA TargetType == ASSUME NEW c \in Files PROVE Target(c) \in Contents \cup {Unmanaged}
  BY DEF Target, On, Files

LEMMA RequestedType ==
    ASSUME NEW c \in Contents, NEW wanted \in Requested(c), NEW d \in Answered(wanted)
    PROVE  d \in Contents /\ d.edits = c.edits
<1>1. c.enabled \in BOOLEAN /\ c.confirmed \in BOOLEAN
  BY DEF Contents
<1> DEFINE enabled == {c.enabled} \cup {TRUE : f \in StartFlags \cap {"local"}}
                                  \cup {FALSE : f \in StartFlags \cap {"no_local"}}
           confirmed == {c.confirmed} \cup {TRUE : f \in StartFlags \cap {"confirm"}}
<1>5. enabled \subseteq BOOLEAN /\ confirmed \subseteq BOOLEAN
  <2>1. \A S, x : x \in {TRUE : f \in S} => x = TRUE
    OBVIOUS
  <2>2. \A S, x : x \in {FALSE : f \in S} => x = FALSE
    OBVIOUS
  <2> QED
    BY <1>1, <2>1, <2>2
<1>2. PICK e \in BOOLEAN, n \in BOOLEAN : wanted = [c EXCEPT !.enabled = e, !.confirmed = n]
  <2>1. wanted \in {[c EXCEPT !.enabled = flags[1], !.confirmed = flags[2]] :
                        flags \in enabled \X confirmed}
    BY DEF Requested
  <2> HIDE DEF enabled, confirmed
  <2>2. PICK flags \in enabled \X confirmed :
                wanted = [c EXCEPT !.enabled = flags[1], !.confirmed = flags[2]]
    BY <2>1
  <2>3. flags[1] \in BOOLEAN /\ flags[2] \in BOOLEAN
    BY <1>5, <2>2
  <2> QED
    BY <2>2, <2>3
<1>3. wanted \in Contents /\ wanted.edits = c.edits
  BY <1>2, FlagsType
<1>4. \/ d = wanted
      \/ d = [wanted EXCEPT !.confirmed = TRUE]
      \/ d = [wanted EXCEPT !.enabled = FALSE]
  BY DEF Answered
<1> QED
  BY <1>3, <1>4, FlagsType

\* A step of one job that neither takes nor gives back the lock.
LEMMA PlacesMove ==
    ASSUME PlacesInv, NEW j \in Jobs, NEW label \in Labels,
           pc' = [pc EXCEPT ![j] = label], lock' = lock,
           label \in Holding => lock = j,
           lock = j => label \in Holding \cup Applying,
           label \in Applying /\ lock # j => j \in Starts,
           label = "applied" => j \in Admins
    PROVE  PlacesInv'
  BY NoneIsNoJob DEF PlacesInv

\* What Load leaves in the memory of a job.
LEMMA LoadMemory ==
    ASSUME MemoryInv, NEW j \in Jobs, NEW loaded \in Files, NEW candidate \in Contents,
           NEW clears \in BOOLEAN, Load(j, loaded, candidate, clears)
    PROVE  /\ MemoryInv'
           /\ local'[j].doc = loaded /\ local'[j].cand = candidate
           /\ \A i \in Jobs : i # j => local'[i] = local[i]
           /\ UNCHANGED <<files, lock, codex, live, faults, crashes, stored, spoiled>>
<1> DEFINE mine == [local[j] EXCEPT !.doc = loaded, !.cand = candidate, !.clears = clears]
<1>1. local[j] \in Local /\ local \in [Jobs -> Local]
  BY DEF MemoryInv
<1>2. mine \in Local /\ mine.doc = loaded /\ mine.cand = candidate
  BY <1>1 DEF Local
<1>3. local' = [local EXCEPT ![j] = mine]
  BY <1>1 DEF Load
<1>4. UNCHANGED <<files, lock, codex, live, faults, crashes, stored, spoiled>>
  BY DEF Load
<1> HIDE DEF mine
<1> QED
  BY <1>1, <1>2, <1>3, <1>4 DEF MemoryInv

LEMMA ForgetMemory ==
    ASSUME MemoryInv, NEW J, Forget(J), live' \in Contents \cup {None}
    PROVE  /\ MemoryInv'
           /\ \A j \in Jobs : local'[j] = IF j \in J THEN Nothing ELSE local[j]
  BY NothingType DEF Forget, MemoryInv

-----------------------------------------------------------------------------
(* Each action keeps the types and the places.                             *)

\* A job that is not inside write_config does not hold the lock.
LEMMA Outside ==
    ASSUME PlacesInv, NEW j \in Jobs, pc[j] \notin Holding \cup Applying
    PROVE  lock # j
  BY NoneIsNoJob DEF PlacesInv

LEMMA TypesLoad ==
    ASSUME TypesInv, NEW j \in Jobs, pc[j] = "idle",
           NEW loaded \in Files, NEW candidate \in Contents, NEW clears \in BOOLEAN,
           Load(j, loaded, candidate, clears),
           NEW label \in {"waiting", "synced", "ready"}, Goto(j, label),
           label = "synced" => j \in Starts,
           quiet' \subseteq Starts
    PROVE  TypesInv'
<1>1. MemoryInv' /\ UNCHANGED <<files, lock, codex, live, faults, crashes, stored, spoiled>>
  BY LoadMemory DEF TypesInv
<1>2. PlacesInv'
  <2>1. lock # j
    BY Outside DEF TypesInv, Holding, Closing, Applying
  <2>2. /\ label \in Labels /\ label \notin Holding /\ label # "applied"
        /\ label \in Applying => label = "synced"
    BY DEF Labels, Holding, Closing, Applying
  <2> QED
    BY <1>1, <2>1, <2>2, PlacesMove DEF TypesInv, Goto
<1> QED
  BY <1>1, <1>2 DEF TypesInv, FilesInv, CodexInv, CountsInv, files, codex

LEMMA TypesBegin == ASSUME TypesInv, NEW j \in Jobs, Begin(j) PROVE TypesInv'
<1>1. file \in Files /\ Missing \in Files /\ quiet \subseteq Starts
  BY DEF TypesInv, FilesInv, CountsInv, Files
<1>2. file # Missing => file \in Contents
  BY <1>1 DEF Files
<1>3. CASE LoadCommand(j)
  <2> DEFINE c == IF file = Missing THEN Fresh ELSE file
             added == Edited(j, c)
  <2>1. added \in Contents /\ [added EXCEPT !.enabled = FALSE] \in Contents
    <3>1. c \in Contents
      BY <1>2, FreshType
    <3>2. added \in Contents
      BY <3>1, EditedType
    <3> QED
      BY <3>2, FlagsType
  <2>2. \E candidate \in Contents, clears \in BOOLEAN : Load(j, file, candidate, clears)
    <3>1. \/ Load(j, file, added, FALSE)
          \/ Load(j, file, [added EXCEPT !.enabled = FALSE], TRUE)
      BY <1>3 DEF LoadCommand
    <3> HIDE DEF added
    <3> QED
      BY <2>1, <3>1
  <2>3. pc[j] = "idle" /\ Goto(j, "waiting") /\ quiet' \subseteq Starts
    BY <1>1, <1>3 DEF LoadCommand
  <2> QED
    BY <1>1, <2>2, <2>3, TypesLoad
<1>4. CASE LoadAdmin(j)
  <2>1. PICK c \in {file, [file EXCEPT !.enabled = FALSE],
                    [file EXCEPT !.enabled = TRUE, !.confirmed = TRUE]} :
            Load(j, file, Edited(j, c), FALSE)
    BY <1>4 DEF LoadAdmin
  <2>2. file \in Contents
    BY <1>2, <1>4 DEF LoadAdmin
  <2>3. c \in Contents
    BY <2>1, <2>2, FlagsType
  <2>4. Edited(j, c) \in Contents
    BY <2>3, EditedType
  <2>5. pc[j] = "idle" /\ Goto(j, "waiting") /\ quiet' \subseteq Starts
    BY <1>1, <1>4 DEF LoadAdmin
  <2> QED
    BY <1>1, <2>1, <2>4, <2>5, TypesLoad
<1>5. CASE StartCreates(j)
  <2>1. /\ pc[j] = "idle" /\ Goto(j, "waiting") /\ Load(j, Missing, Fresh, FALSE)
        /\ quiet' \subseteq Starts
    BY <1>1, <1>5 DEF StartCreates, Starting, StartQuietly
  <2> QED
    BY <1>1, <2>1, FreshType, TypesLoad
<1>6. CASE StartLoads(j)
  <2>1. /\ pc[j] = "idle" /\ j \in Starts /\ file \in Contents /\ quiet' \subseteq Starts
    BY <1>1, <1>2, <1>6 DEF StartLoads, Starting, StartQuietly
  <2>6. PICK wanted \in Requested(file) : \E c \in Answered(wanted) : \E writes \in WritesFor(c) :
            /\ Load(j, file, IF writes THEN Edited(j, c) ELSE file, FALSE)
            /\ Goto(j, IF writes THEN "waiting"
                       ELSE IF On(file) THEN "synced" ELSE "ready")
    BY <1>6 DEF StartLoads
  <2>2. PICK c \in Answered(wanted), writes \in BOOLEAN :
            /\ Load(j, file, IF writes THEN Edited(j, c) ELSE file, FALSE)
            /\ Goto(j, IF writes THEN "waiting"
                       ELSE IF On(file) THEN "synced" ELSE "ready")
    BY <2>6 DEF WritesFor
  <2>3. c \in Contents
    BY <2>1, <2>2, RequestedType
  <2>4. (IF writes THEN Edited(j, c) ELSE file) \in Contents
    BY <2>1, <2>3, EditedType
  <2>5. PICK label \in {"waiting", "synced", "ready"} : Goto(j, label)
    BY <2>2
  <2> QED
    BY <1>1, <2>1, <2>2, <2>4, <2>5, TypesLoad
<1>7. CASE StartRefused(j)
  <2>1. pc[j] = "idle" /\ pc' = [pc EXCEPT ![j] = "error"]
        /\ UNCHANGED <<files, lock, codex, live, local, faults, crashes, history>>
    BY <1>7 DEF StartRefused, Starting, Goto
  <2>2. PlacesInv'
    <3>1. lock # j
      BY <2>1, Outside DEF TypesInv, Holding, Closing, Applying
    <3>2. "error" \in Labels /\ "error" \notin Holding \cup Applying
      BY DEF Labels, Holding, Closing, Applying, Resting, Ended
    <3> QED
      BY <2>1, <3>1, <3>2, PlacesMove DEF TypesInv
  <2> QED
    BY <2>1, <2>2 DEF TypesInv, FilesInv, CodexInv, MemoryInv, CountsInv, files, codex, history
<1> QED
  BY <1>3, <1>4, <1>5, <1>6, <1>7 DEF Begin

LEMMA TypesServe == ASSUME TypesInv, NEW j \in Jobs, Serve(j) PROVE TypesInv'
<1>1. /\ pc[j] = "ready" /\ Forget({j})
      /\ UNCHANGED <<files, lock, codex, faults, crashes, history>>
  BY DEF Serve
<1>2. live' \in Contents \cup {None}
  BY DEF Serve, TypesInv, FilesInv, MemoryInv, Files
<1>3. PICK label \in {"error", "serving"} : pc' = [pc EXCEPT ![j] = label]
  BY DEF Serve, Goto
<1>4. MemoryInv'
  BY <1>1, <1>2, ForgetMemory DEF TypesInv
<1>5. PlacesInv'
  <2>1. lock # j
    BY <1>1, Outside DEF TypesInv, Holding, Closing, Applying
  <2>2. label \in Labels /\ label \notin Holding \cup Applying
    BY DEF Labels, Holding, Closing, Applying, Resting, Ended
  <2>3. lock' = lock /\ label # "applied"
    BY <1>1, <2>2 DEF Applying
  <2> QED
    BY <1>3, <2>1, <2>2, <2>3, PlacesMove DEF TypesInv
<1> QED
  BY <1>1, <1>4, <1>5 DEF TypesInv, FilesInv, CodexInv, CountsInv, files, codex, history

\* The steps of write_config that keep the lock change no memory and stay inside.
LEMMA TypesInside ==
    ASSUME TypesInv, NEW j \in Jobs, lock = j,
           NEW label \in Holding \cup Applying, pc' = [pc EXCEPT ![j] = label],
           label = "applied" => j \in Admins,
           UNCHANGED <<lock, crashes, quiet>>,
           FilesInv', CodexInv', MemoryInv',
           faults' \in 0..MaxFaults, stored' \subseteq Jobs, spoiled' \subseteq Jobs
    PROVE  TypesInv'
<1>1. label \in Labels
  BY DEF Labels
<1>2. PlacesInv'
  BY <1>1, PlacesMove DEF TypesInv
<1> QED
  BY <1>2 DEF TypesInv, CountsInv

LEMMA FaultsType ==
    ASSUME CountsInv, Fault \/ NoFault
    PROVE  faults' \in 0..MaxFaults
  BY JobsAssumption DEF CountsInv, Fault, NoFault

\* What a job found and remembers.
LEMMA LocalType ==
    ASSUME MemoryInv, NEW j \in Jobs
    PROVE  /\ local[j].doc \in Files /\ local[j].cand \in Contents
           /\ local[j].before \in Found /\ local[j].before.file \in Files
           /\ local[j].snapshots \in Codex
           /\ local[j].snapshots.catalog \in Contents \cup {Unmanaged}
           /\ local[j].snapshots.toml \in Contents \cup {Unmanaged}
           /\ local[j].cand \in Files
  BY DEF MemoryInv, Local, Found, Codex, Files

LEMMA TypesWrite ==
    ASSUME TypesInv, NEW j \in Jobs,
           Backup(j) \/ Replace(j) \/ SyncDirectory(j) \/ Restore(j) \/ SyncRestored(j)
    PROVE  TypesInv'
<1>1. /\ lock = j
      /\ pc[j] \in {"checked", "backed", "replaced", "restoring", "resyncing"}
  BY DEF Backup, Replace, SyncDirectory, Restore, SyncRestored, TypesInv, PlacesInv, Holding
<1>2. /\ UNCHANGED <<lock, codex, live, local, crashes, quiet>>
      /\ Fault \/ NoFault
  BY DEF Backup, Replace, SyncDirectory, Restore, SyncRestored, history
<1>3. faults' \in 0..MaxFaults
  BY <1>2, FaultsType DEF TypesInv
<1>4. CodexInv' /\ MemoryInv'
  BY <1>2 DEF TypesInv, CodexInv, MemoryInv, codex
<1>5. FilesInv'
  <2>1. local[j].cand \in Files /\ local[j].before.file \in Files
    BY LocalType DEF TypesInv
  <2>2. CASE Backup(j)
    BY <2>2 DEF Backup, TypesInv, FilesInv, files
  <2>3. CASE Replace(j)
    BY <2>1, <2>3 DEF Replace, TypesInv, FilesInv, files
  <2>4. CASE SyncDirectory(j)
    BY <2>4 DEF SyncDirectory, TypesInv, FilesInv
  <2>5. CASE Restore(j)
    <3>1. file' \in {file, local[j].before.file} /\ disk' = disk \cup {file'}
      BY <2>5 DEF Restore
    <3> QED
      BY <2>1, <3>1 DEF TypesInv, FilesInv
  <2>6. CASE SyncRestored(j)
    BY <2>6 DEF SyncRestored, TypesInv, FilesInv
  <2> QED
    BY <2>2, <2>3, <2>4, <2>5, <2>6
<1>6. stored' \subseteq Jobs /\ spoiled' \subseteq Jobs
  BY DEF Backup, Replace, SyncDirectory, Restore, SyncRestored, history, TypesInv, CountsInv
<1>7. \E label \in Holding \cup Applying :
          pc' = [pc EXCEPT ![j] = label] /\ (label = "applied" => j \in Admins)
  <2>1. AfterSync(j) \in Holding \cup Applying /\ (AfterSync(j) = "applied" => j \in Admins)
    BY DEF AfterSync, Holding, Applying, Closing
  <2>2. /\ {"backed", "replaced", "restoring", "resyncing"} \cup Closing \subseteq Holding
        /\ "applied" \notin Holding
    BY DEF Holding, Closing
  <2>3. \/ Goto(j, AfterSync(j))
        \/ \E label \in {"backed", "replaced", "restoring", "resyncing"} \cup Closing :
                Goto(j, label)
    BY DEF Backup, Replace, SyncDirectory, Restore, SyncRestored, Closing
  <2> QED
    BY <2>1, <2>2, <2>3 DEF Goto
<1> QED
  BY <1>1, <1>2, <1>3, <1>4, <1>5, <1>6, <1>7, TypesInside

LEMMA TypesAcquire == ASSUME TypesInv, NEW j \in Jobs, Acquire(j) PROVE TypesInv'
<1> DEFINE found == [file |-> file, live |-> live,
                     codex |-> [catalog |-> catalog, toml |-> toml]]
<1>1. /\ pc[j] = "waiting" /\ lock = None /\ lock' = j
      /\ local' = [local EXCEPT ![j].before = found]
      /\ UNCHANGED <<files, codex, live, faults, crashes, stored, spoiled>>
      /\ quiet' \subseteq quiet
  BY DEF Acquire
<1>2. PICK label \in {"closing_error", "backed", "checked"} : pc' = [pc EXCEPT ![j] = label]
  BY DEF Acquire, Goto
<1>3. MemoryInv'
  <2>1. [catalog |-> catalog, toml |-> toml] \in Codex
    BY DEF Codex, TypesInv, CodexInv
  <2>2. found \in Found
    BY <2>1 DEF Found, TypesInv, FilesInv, MemoryInv
  <2> HIDE DEF found
  <2>3. local[j] \in Local
    BY DEF TypesInv, MemoryInv
  <2>4. [local[j] EXCEPT !.before = found] \in Local
    BY <2>2, <2>3 DEF Local
  <2>5. local' = [local EXCEPT ![j] = [local[j] EXCEPT !.before = found]]
    BY <1>1 DEF TypesInv, MemoryInv
  <2> QED
    BY <1>1, <2>4, <2>5 DEF TypesInv, MemoryInv
<1>4. PlacesInv'
  <2>1. \A i \in Jobs : pc[i] \notin Holding
    BY <1>1, NoneIsNoJob DEF TypesInv, PlacesInv
  <2>2. label \in Holding /\ label \in Labels /\ label \notin Applying /\ label # "applied"
    BY DEF Holding, Closing, Labels, Applying
  <2>3. /\ pc \in [Jobs -> Labels] /\ lock' = j /\ lock = None
        /\ \A i \in Jobs : pc[i] \in Applying => i \in Starts
        /\ \A i \in Jobs : pc[i] = "applied" => i \in Admins
    BY <1>1, NoneIsNoJob DEF TypesInv, PlacesInv
  <2>4. /\ pc' \in [Jobs -> Labels] /\ pc'[j] = label
        /\ \A i \in Jobs : i # j => pc'[i] = pc[i]
    BY <1>2, <2>2, <2>3
  <2>5. \A i \in Jobs : pc'[i] \in Holding => i = j
    BY <2>1, <2>4
  <2>6. \A i \in Jobs : pc'[i] \in Applying => i \in Starts
    BY <2>2, <2>3, <2>4
  <2>7. \A i \in Jobs : pc'[i] = "applied" => i \in Admins
    BY <2>2, <2>3, <2>4
  <2>8. lock' = j /\ pc'[j] \in Holding
    BY <2>2, <2>3, <2>4
  <2> QED
    BY <2>4, <2>5, <2>6, <2>7, <2>8 DEF PlacesInv
<1> QED
  BY <1>1, <1>3, <1>4 DEF TypesInv, FilesInv, CodexInv, CountsInv, files, codex

LEMMA TypesRelease == ASSUME TypesInv, NEW j \in Jobs, Release(j) PROVE TypesInv'
<1>1. /\ pc[j] \in Closing /\ lock' = None /\ Forget({j})
      /\ pc' = [pc EXCEPT ![j] = Reported(j)]
      /\ UNCHANGED <<files, codex, live, faults, crashes, spoiled, quiet>>
      /\ stored' \subseteq stored \cup {j}
  BY DEF Release, Goto
<1>2. MemoryInv'
  BY <1>1, ForgetMemory DEF TypesInv, MemoryInv
<1>3. PlacesInv'
  <2>1. lock = j
    BY <1>1 DEF TypesInv, PlacesInv, Holding
  <2>2. /\ Reported(j) \in Labels /\ Reported(j) \notin Holding \cup Applying
        /\ Reported(j) # "applied"
    BY DEF Reported, Labels, Holding, Applying, Closing, Resting, Ended
  <2>3. \A i \in Jobs : i # j => pc[i] \notin Holding
    BY <2>1 DEF TypesInv, PlacesInv
  <2>4. \A i \in Jobs : i # j => pc'[i] = pc[i]
    BY <1>1 DEF TypesInv, PlacesInv
  <2>5. pc' \in [Jobs -> Labels] /\ pc'[j] = Reported(j)
    BY <1>1, <2>2 DEF TypesInv, PlacesInv
  <2>6. \A i \in Jobs : pc'[i] \notin Holding
    BY <2>2, <2>3, <2>4, <2>5
  <2>7. \A i \in Jobs : pc'[i] \in Applying => i \in Starts
    BY <2>1, <2>2, <2>4, <2>5 DEF TypesInv, PlacesInv
  <2>8. \A i \in Jobs : pc'[i] = "applied" => i \in Admins
    BY <2>2, <2>4, <2>5 DEF TypesInv, PlacesInv
  <2> QED
    BY <1>1, <2>5, <2>6, <2>7, <2>8 DEF PlacesInv
<1> QED
  BY <1>1, <1>2, <1>3 DEF TypesInv, FilesInv, CodexInv, CountsInv, files, codex

\* The steps of a transaction on Codex's files: with the lock they are steps
\* inside write_config, without it those of a start.
LEMMA TypesTransaction == ASSUME TypesInv, NEW j \in Jobs, Transaction(j) PROVE TypesInv'
<1>1. /\ pc[j] \in Applying
      /\ UNCHANGED <<files, lock, crashes, stored, quiet>>
      /\ Fault \/ NoFault \/ UNCHANGED faults
      /\ spoiled' \subseteq spoiled \cup {j}
  BY DEF Transaction, Snapshot, SnapshotFails, WriteCatalog, WriteToml, Activate, UndoCatalog,
         UndoToml, Applying, history
<1>2. /\ Target(local[j].cand) \in Contents \cup {Unmanaged}
      /\ local[j].snapshots.catalog \in Contents \cup {Unmanaged}
      /\ local[j].snapshots.toml \in Contents \cup {Unmanaged}
      /\ local[j].cand \in Contents
  BY LocalType, TargetType DEF TypesInv
<1>3. CodexInv'
  <2> DEFINE Managed == Contents \cup {Unmanaged}
  <2>1. CASE Snapshot(j) \/ SnapshotFails(j) \/ Activate(j)
    BY <2>1 DEF Snapshot, SnapshotFails, Activate, codex, TypesInv, CodexInv
  <2>2. CASE WriteCatalog(j)
    <3>1. catalog' \in {catalog, Target(local[j].cand), Unmanaged}
      BY <2>2 DEF WriteCatalog, Written
    <3>2. codex_disk' = codex_disk \cup {catalog'} /\ toml' = toml
      BY <2>2 DEF WriteCatalog
    <3> QED
      BY <1>2, <3>1, <3>2 DEF TypesInv, CodexInv
  <2>3. CASE WriteToml(j)
    <3>1. toml' \in {toml, Target(local[j].cand)}
      BY <2>3 DEF WriteToml, Written
    <3>2. codex_disk' = codex_disk \cup {toml'} /\ catalog' = catalog
      BY <2>3 DEF WriteToml
    <3> QED
      BY <1>2, <3>1, <3>2 DEF TypesInv, CodexInv
  <2>4. CASE UndoCatalog(j)
    <3>1. /\ catalog' \in {catalog, local[j].snapshots.catalog}
          /\ codex_disk' = codex_disk \cup {catalog'} /\ toml' = toml
      BY <2>4 DEF UndoCatalog
    <3> QED
      BY <1>2, <3>1 DEF TypesInv, CodexInv
  <2>5. CASE UndoToml(j)
    <3>1. /\ toml' \in {toml, local[j].snapshots.toml}
          /\ codex_disk' = codex_disk \cup {toml'} /\ catalog' = catalog
      BY <2>5 DEF UndoToml
    <3> QED
      BY <1>2, <3>1 DEF TypesInv, CodexInv
  <2> QED
    BY <2>1, <2>2, <2>3, <2>4, <2>5 DEF Transaction
<1>4. MemoryInv'
  <2>1. CASE Snapshot(j)
    <3> DEFINE taken == [catalog |-> catalog, toml |-> toml]
    <3>1. taken \in Codex
      BY DEF Codex, TypesInv, CodexInv
    <3> HIDE DEF taken
    <3>2. [local[j] EXCEPT !.snapshots = taken] \in Local
      BY <3>1 DEF Local, TypesInv, MemoryInv
    <3>3. local' = [local EXCEPT ![j] = [local[j] EXCEPT !.snapshots = taken]]
      BY <2>1 DEF Snapshot, taken, TypesInv, MemoryInv
    <3>4. live' = live
      BY <2>1 DEF Snapshot
    <3> QED
      BY <3>2, <3>3, <3>4 DEF TypesInv, MemoryInv
  <2>2. CASE WriteCatalog(j) \/ WriteToml(j) \/ UndoCatalog(j)
    BY <2>2 DEF WriteCatalog, WriteToml, UndoCatalog, TypesInv, MemoryInv
  <2>3. CASE Activate(j)
    BY <1>2, <2>3 DEF Activate, TypesInv, MemoryInv
  <2>4. CASE SnapshotFails(j) \/ UndoToml(j)
    <3>1. live' = live /\ (UNCHANGED local \/ Forget({j}))
      BY <2>4 DEF SnapshotFails, UndoToml
    <3> QED
      BY <3>1, ForgetMemory DEF TypesInv, MemoryInv
  <2> QED
    BY <2>1, <2>2, <2>3, <2>4 DEF Transaction
<1>5. PlacesInv'
  <2>1. PICK label : /\ pc' = [pc EXCEPT ![j] = label]
                     /\ \/ label \in {"snapped", "catalogued", "undo_catalog", "undo_toml"}
                        \/ lock = j /\ label \in {"closing_ok", "restoring"}
                        \/ j \in Admins /\ label = "applied"
                        \/ lock # j /\ label \in {"ready", "error"}
    <3>1. pc[j] = "applied" => lock = j
      BY JobsAssumption DEF TypesInv, PlacesInv, Applying
    <3>2. CASE Snapshot(j)
      BY <3>2 DEF Snapshot, Goto
    <3>3. CASE WriteCatalog(j)
      BY <3>3 DEF WriteCatalog, Goto
    <3>4. CASE WriteToml(j)
      BY <3>4 DEF WriteToml, AfterApply, Goto
    <3>5. CASE Activate(j)
      BY <3>1, <3>5 DEF Activate, AfterFailure, Goto
    <3>6. CASE UndoCatalog(j)
      BY <3>6 DEF UndoCatalog, Goto
    <3>7. CASE SnapshotFails(j) \/ UndoToml(j)
      BY <3>7 DEF SnapshotFails, UndoToml, Goto
    <3> QED
      BY <3>2, <3>3, <3>4, <3>5, <3>6, <3>7 DEF Transaction
  <2>2. lock # j => j \in Starts
    BY <1>1 DEF TypesInv, PlacesInv
  <2>3. j \in Admins => lock = j
    BY <2>2, JobsAssumption
  <2>4. /\ {"snapped", "catalogued", "undo_catalog", "undo_toml", "applied"} \subseteq Applying
        /\ {"closing_ok", "restoring"} \subseteq Holding
        /\ Holding \cup Applying \cup {"ready", "error"} \subseteq Labels
        /\ Holding \cap Applying = {} /\ {"ready", "error"} \cap (Holding \cup Applying) = {}
    BY DEF Applying, Holding, Closing, Labels, Resting, Ended
  <2>5. /\ label \in Labels
        /\ label \in Holding => lock = j
        /\ lock = j => label \in Holding \cup Applying
        /\ label = "applied" => j \in Admins
    BY <2>1, <2>3, <2>4
  <2>6. lock' = lock
    BY <1>1
  <2> QED
    BY <2>1, <2>2, <2>5, <2>6, PlacesMove DEF TypesInv
<1>6. CountsInv'
  BY <1>1, FaultsType DEF TypesInv, CountsInv
<1> QED
  BY <1>1, <1>3, <1>4, <1>5, <1>6 DEF TypesInv, FilesInv, files

LEMMA TypesKilled ==
    ASSUME TypesInv, NEW J \in SUBSET Jobs, Killed(J),
           lock' = IF lock \in J THEN None ELSE lock,
           FilesInv', CodexInv', live' \in Contents \cup {None},
           crashes' \in 0..MaxCrashes,
           UNCHANGED <<faults, history>>
    PROVE  TypesInv'
<1>1. MemoryInv'
  BY ForgetMemory DEF Killed, TypesInv
<1>2. "killed" \in Labels /\ "killed" \notin Holding \cup Applying /\ "killed" # "applied"
  BY DEF Labels, Resting, Ended, Holding, Closing, Applying
<1>3. /\ pc \in [Jobs -> Labels]
      /\ \A i \in Jobs : pc'[i] = IF i \in J THEN "killed" ELSE pc[i]
      /\ pc' \in [Jobs -> Labels]
  BY <1>2 DEF Killed, TypesInv, PlacesInv
<1>4. PlacesInv'
  <2>1. lock' \in Jobs \cup {None}
    BY DEF TypesInv, PlacesInv
  <2>2. ASSUME NEW i \in Jobs, pc'[i] \in Holding
        PROVE  lock' = i
    BY <1>2, <1>3, <2>2 DEF TypesInv, PlacesInv
  <2>3. ASSUME lock' # None
        PROVE  pc'[lock'] \in Holding \cup Applying
    BY <1>3, <2>3 DEF TypesInv, PlacesInv
  <2>4. ASSUME NEW i \in Jobs, pc'[i] \in Applying, lock' # i
        PROVE  i \in Starts
    BY <1>2, <1>3, <2>4 DEF TypesInv, PlacesInv
  <2>5. ASSUME NEW i \in Jobs, pc'[i] = "applied"
        PROVE  i \in Admins
    BY <1>2, <1>3, <2>5 DEF TypesInv, PlacesInv
  <2> QED
    BY <1>3, <2>1, <2>2, <2>3, <2>4, <2>5 DEF PlacesInv
<1> QED
  BY <1>1, <1>4 DEF TypesInv, CountsInv, history

\* Who holds the lock is running.
LEMMA HolderRuns == ASSUME PlacesInv, lock # None PROVE lock \in Running(Jobs)
  BY DEF PlacesInv, Running, Holding, Applying, Closing, Ended

LEMMA CrashesType ==
    ASSUME CountsInv, crashes < MaxCrashes, crashes' = crashes + 1
    PROVE  crashes' \in 0..MaxCrashes
  BY JobsAssumption DEF CountsInv

LEMMA TypesKill == ASSUME TypesInv, NEW j \in Jobs, Kill(j) PROVE TypesInv'
<1>1. /\ Killed(Process(j)) /\ UNCHANGED <<files, codex, faults, history>>
      /\ lock' = IF lock \in Process(j) THEN None ELSE lock
  BY DEF Kill
<1>2. Process(j) \in SUBSET Jobs
  BY DEF Process, Running, Gateway
<1>3. FilesInv' /\ CodexInv'
  BY <1>1 DEF TypesInv, FilesInv, CodexInv, files, codex
<1>4. live' \in Contents \cup {None}
  BY DEF Kill, TypesInv, MemoryInv
<1>5. crashes' \in 0..MaxCrashes
  BY CrashesType DEF Kill, TypesInv
<1> QED
  BY <1>1, <1>2, <1>3, <1>4, <1>5, TypesKilled

LEMMA TypesPowerLoss == ASSUME TypesInv, PowerLoss PROVE TypesInv'
<1>1. /\ Killed(Running(Jobs)) /\ UNCHANGED <<faults, history>>
      /\ lock' = None /\ live' = None
  BY DEF PowerLoss
<1>2. Running(Jobs) \in SUBSET Jobs
  BY DEF Running
<1>3. FilesInv'
  BY DEF PowerLoss, TypesInv, FilesInv
<1>4. CodexInv'
  BY DEF PowerLoss, TypesInv, CodexInv
<1>5. crashes' \in 0..MaxCrashes
  BY CrashesType DEF PowerLoss, TypesInv
<1>6. lock' = IF lock \in Running(Jobs) THEN None ELSE lock
  BY <1>1, HolderRuns DEF TypesInv
<1> QED
  BY <1>1, <1>2, <1>3, <1>4, <1>5, <1>6, TypesKilled

LEMMA TypesStep == ASSUME TypesInv, Next PROVE TypesInv'
<1>1. CASE PowerLoss
  BY <1>1, TypesPowerLoss
<1>2. ASSUME NEW j \in Jobs, Begin(j) \/ Step(j) \/ Kill(j)
      PROVE  TypesInv'
  <2>1. CASE Begin(j)
    BY <2>1, TypesBegin
  <2>2. CASE WriteConfig(j)
    <3>1. CASE Acquire(j)
      BY <3>1, TypesAcquire
    <3>2. CASE Release(j)
      BY <3>2, TypesRelease
    <3>3. CASE Backup(j) \/ Replace(j) \/ SyncDirectory(j) \/ Restore(j) \/ SyncRestored(j)
      BY <3>3, TypesWrite
    <3> QED
      BY <2>2, <3>1, <3>2, <3>3 DEF WriteConfig
  <2>3. CASE Transaction(j)
    BY <2>3, TypesTransaction
  <2>4. CASE Serve(j)
    BY <2>4, TypesServe
  <2>5. CASE Kill(j)
    BY <2>5, TypesKill
  <2> QED
    BY <1>2, <2>1, <2>2, <2>3, <2>4, <2>5 DEF Step
<1> QED
  BY <1>1, <1>2 DEF Next

LEMMA TypesStutter == ASSUME TypesInv, UNCHANGED vars PROVE TypesInv'
  BY DEF TypesInv, PlacesInv, FilesInv, CodexInv, MemoryInv, CountsInv, vars, files, codex,
         history

LEMMA TypesInit == ASSUME Init PROVE TypesInv
<1>1. FilesInv
  BY DEF Init, FilesInv, Files, Contents
<1>2. CodexInv
  BY <1>1, TargetType DEF Init, FilesInv, CodexInv
<1>3. MemoryInv
  BY NothingType DEF Init, MemoryInv
<1>4. CountsInv
  BY JobsAssumption DEF Init, CountsInv
<1>5. PlacesInv
  BY NoneIsNoJob DEF Init, PlacesInv, Labels, Holding, Applying, Closing, Resting
<1> QED
  BY <1>1, <1>2, <1>3, <1>4, <1>5 DEF TypesInv

\* In every state: every variable has its type, who is inside write_config
\* holds the lock, and what a process reads of the file and of Codex's files is
\* something a power loss may leave there.
THEOREM ConfigTypeCorrect == Spec => []TypeOK
<1>1. Init => TypesInv
  BY TypesInit
<1>2. TypesInv /\ [Next]_vars => TypesInv'
  BY TypesStep, TypesStutter
<1>3. TypesInv => TypeOK
  BY TypesInvTypeOK
<1> QED
  BY <1>1, <1>2, <1>3, PTL DEF Spec

-----------------------------------------------------------------------------
(* Nothing reported is lost.  DoneSurvives is not inductive: that Replace  *)
(* keeps the edits of others rests on what the job loaded being what is in *)
(* the file (the digest), that Restore does on what it found when it got   *)
(* the lock, and that Release may report on the directory sync.            *)

Settled == {"synced", "snapped", "catalogued", "applied", "closing_ok"}

\* A job never drops an edit it has loaded.
CandidateKeeps == \A j \in Jobs : EditsOf(local[j].doc) \subseteq local[j].cand.edits
\* What the holder of the lock may put back has what was reported.
FoundKeeps == \A j \in Jobs : lock = j => stored \subseteq EditsOf(local[j].before.file)
DigestHolds ==
    \A j \in Jobs : pc[j] \in {"checked", "backed"} /\ local[j].doc # Missing =>
        local[j].doc = file
ReplacedHolds == \A j \in Jobs : pc[j] = "replaced" => file = local[j].cand
SettledHolds == \A j \in Jobs : lock = j /\ pc[j] \in Settled => disk = {local[j].cand}

SurviveInv ==
    /\ DoneSurvives /\ CandidateKeeps /\ FoundKeeps
    /\ DigestHolds /\ ReplacedHolds /\ SettledHolds

\* A step of one job that leaves the file, the lock and what was reported alone.
LEMMA SurviveFrame ==
    ASSUME TypesInv, SurviveInv, NEW j \in Jobs, NEW label,
           pc' = [pc EXCEPT ![j] = label],
           UNCHANGED <<file, disk, lock, stored>>,
           \A i \in Jobs : i # j => local'[i] = local[i],
           EditsOf(local'[j].doc) \subseteq local'[j].cand.edits,
           lock = j => /\ local'[j].doc = local[j].doc /\ local'[j].cand = local[j].cand
                       /\ local'[j].before = local[j].before,
           label \in {"checked", "backed"} => pc[j] = "checked",
           label # "replaced",
           lock = j /\ label \in Settled => pc[j] \in Settled
    PROVE  SurviveInv'
<1>1. /\ \A i \in Jobs : pc'[i] = IF i = j THEN label ELSE pc[i]
      /\ pc[j] = "checked" => lock = j
      /\ file' = file /\ disk' = disk /\ lock' = lock /\ stored' = stored
  BY DEF TypesInv, PlacesInv, Holding
<1>2. DoneSurvives'
  BY <1>1 DEF SurviveInv, DoneSurvives
<1>3. CandidateKeeps'
  BY DEF SurviveInv, CandidateKeeps
<1>4. FoundKeeps'
  <2> SUFFICES ASSUME NEW i \in Jobs, lock = i
               PROVE  stored \subseteq EditsOf(local'[i].before.file)
    BY <1>1 DEF FoundKeeps
  <2>1. local'[i].before = local[i].before
    OBVIOUS
  <2> QED
    BY <2>1 DEF SurviveInv, FoundKeeps
<1>5. DigestHolds'
  <2> SUFFICES ASSUME NEW i \in Jobs, pc'[i] \in {"checked", "backed"}, local'[i].doc # Missing
               PROVE  local'[i].doc = file
    BY <1>1 DEF DigestHolds
  <2>1. pc[i] \in {"checked", "backed"} /\ local'[i].doc = local[i].doc
    BY <1>1
  <2> QED
    BY <2>1 DEF SurviveInv, DigestHolds
<1>6. ReplacedHolds'
  <2> SUFFICES ASSUME NEW i \in Jobs, pc'[i] = "replaced"
               PROVE  file = local'[i].cand
    BY <1>1 DEF ReplacedHolds
  <2>1. i # j /\ pc[i] = "replaced" /\ local'[i] = local[i]
    BY <1>1
  <2> QED
    BY <2>1 DEF SurviveInv, ReplacedHolds
<1>7. SettledHolds'
  <2> SUFFICES ASSUME NEW i \in Jobs, lock = i, pc'[i] \in Settled
               PROVE  disk = {local'[i].cand}
    BY <1>1 DEF SettledHolds
  <2>1. pc[i] \in Settled /\ local'[i].cand = local[i].cand
    BY <1>1
  <2> QED
    BY <2>1 DEF SurviveInv, SettledHolds
<1> QED
  BY <1>2, <1>3, <1>4, <1>5, <1>6, <1>7 DEF SurviveInv

LEMMA SurviveLoad ==
    ASSUME TypesInv, SurviveInv, NEW j \in Jobs, pc[j] = "idle",
           NEW loaded \in Files, NEW candidate \in Contents, NEW clears \in BOOLEAN,
           Load(j, loaded, candidate, clears), EditsOf(loaded) \subseteq candidate.edits,
           NEW label \in {"waiting", "synced", "ready"}, Goto(j, label)
    PROVE  SurviveInv'
<1>1. /\ local'[j].doc = loaded /\ local'[j].cand = candidate
      /\ \A i \in Jobs : i # j => local'[i] = local[i]
      /\ UNCHANGED <<file, disk, lock, stored>>
  BY LoadMemory DEF TypesInv, files
<1>2. lock # j
  BY Outside DEF TypesInv, Holding, Closing, Applying
<1>3. pc' = [pc EXCEPT ![j] = label]
  BY DEF Goto
<1>4. EditsOf(local'[j].doc) \subseteq local'[j].cand.edits
  BY <1>1
<1>5. label \notin {"checked", "backed"} /\ label # "replaced"
  OBVIOUS
<1> QED
  BY <1>1, <1>2, <1>3, <1>4, <1>5, SurviveFrame

LEMMA SurviveBegin == ASSUME TypesInv, SurviveInv, NEW j \in Jobs, Begin(j) PROVE SurviveInv'
<1>1. file \in Files /\ Missing \in Files
  BY DEF TypesInv, FilesInv, Files
<1>2. file # Missing => file \in Contents /\ EditsOf(file) = file.edits
  BY <1>1 DEF Files, EditsOf
<1>3. EditsOf(Missing) = {}
  BY DEF EditsOf
<1>4. CASE LoadCommand(j)
  <2> DEFINE c == IF file = Missing THEN Fresh ELSE file
             added == Edited(j, c)
             cleared == [added EXCEPT !.enabled = FALSE]
  <2>1. c \in Contents /\ EditsOf(file) \subseteq c.edits
    BY <1>2, <1>3, FreshType
  <2>2. added \in Contents /\ EditsOf(file) \subseteq added.edits
    BY <2>1, EditedType
  <2>3. cleared \in Contents /\ EditsOf(file) \subseteq cleared.edits
    BY <2>2, FlagsType
  <2>4. /\ Load(j, file, added, FALSE) \/ Load(j, file, cleared, TRUE)
        /\ pc[j] = "idle" /\ Goto(j, "waiting")
    BY <1>4 DEF LoadCommand
  <2> HIDE DEF added, cleared
  <2> QED
    BY <1>1, <2>2, <2>3, <2>4, SurviveLoad
<1>5. CASE LoadAdmin(j)
  <2>1. PICK c \in {file, [file EXCEPT !.enabled = FALSE],
                    [file EXCEPT !.enabled = TRUE, !.confirmed = TRUE]} :
            Load(j, file, Edited(j, c), FALSE)
    BY <1>5 DEF LoadAdmin
  <2>2. file \in Contents /\ EditsOf(file) = file.edits
    BY <1>2, <1>5 DEF LoadAdmin
  <2>3. c \in Contents /\ c.edits = file.edits
    BY <2>1, <2>2, FlagsType
  <2>4. Edited(j, c) \in Contents /\ EditsOf(file) \subseteq Edited(j, c).edits
    BY <2>2, <2>3, EditedType
  <2>5. pc[j] = "idle" /\ Goto(j, "waiting")
    BY <1>5 DEF LoadAdmin
  <2> QED
    BY <1>1, <2>1, <2>4, <2>5, SurviveLoad
<1>6. CASE StartCreates(j)
  <2>1. /\ pc[j] = "idle" /\ Goto(j, "waiting") /\ Load(j, Missing, Fresh, FALSE)
    BY <1>6 DEF StartCreates, Starting
  <2>2. EditsOf(Missing) \subseteq Fresh.edits
    BY <1>3
  <2> QED
    BY <1>1, <2>1, <2>2, FreshType, SurviveLoad
<1>7. CASE StartLoads(j)
  <2>1. pc[j] = "idle" /\ j \in Starts /\ file \in Contents /\ EditsOf(file) = file.edits
    BY <1>2, <1>7 DEF StartLoads, Starting
  <2>2. PICK wanted \in Requested(file) : \E c \in Answered(wanted) : \E writes \in WritesFor(c) :
            /\ Load(j, file, IF writes THEN Edited(j, c) ELSE file, FALSE)
            /\ Goto(j, IF writes THEN "waiting"
                       ELSE IF On(file) THEN "synced" ELSE "ready")
    BY <1>7 DEF StartLoads
  <2>3. PICK c \in Answered(wanted), writes \in BOOLEAN :
            /\ Load(j, file, IF writes THEN Edited(j, c) ELSE file, FALSE)
            /\ Goto(j, IF writes THEN "waiting"
                       ELSE IF On(file) THEN "synced" ELSE "ready")
    BY <2>2 DEF WritesFor
  <2>4. c \in Contents /\ c.edits = file.edits
    BY <2>1, <2>3, RequestedType
  <2> DEFINE cand == IF writes THEN Edited(j, c) ELSE file
  <2>5. cand \in Contents /\ EditsOf(file) \subseteq cand.edits
    BY <2>1, <2>4, EditedType
  <2>6. PICK label \in {"waiting", "synced", "ready"} : Goto(j, label)
    BY <2>3
  <2>7. Load(j, file, cand, FALSE)
    BY <2>3
  <2> HIDE DEF cand
  <2> QED
    BY <1>1, <2>1, <2>5, <2>6, <2>7, SurviveLoad
<1>8. CASE StartRefused(j)
  <2>1. /\ pc' = [pc EXCEPT ![j] = "error"] /\ local' = local
        /\ UNCHANGED <<file, disk, lock, stored>>
    BY <1>8 DEF StartRefused, Goto, files, history
  <2>2. EditsOf(local'[j].doc) \subseteq local'[j].cand.edits
    BY <2>1 DEF SurviveInv, CandidateKeeps
  <2>3. "error" \notin Settled
    BY DEF Settled
  <2> QED
    BY <2>1, <2>2, <2>3, SurviveFrame
<1> QED
  BY <1>4, <1>5, <1>6, <1>7, <1>8 DEF Begin

\* What a job that has forgotten everything would write has what it loaded.
LEMMA NothingKeeps == EditsOf(Nothing.doc) \subseteq Nothing.cand.edits
  BY DEF Nothing, EditsOf

LEMMA SurviveQuiet ==
    ASSUME TypesInv, SurviveInv, NEW j \in Jobs,
           Serve(j) \/ Backup(j) \/ Transaction(j)
    PROVE  SurviveInv'
<1> DEFINE Allowed(label) ==
        \/ label \in {"snapped", "catalogued", "applied", "closing_ok"} /\ pc[j] \in Settled
        \/ label \in {"ready", "error", "serving", "undo_catalog", "undo_toml", "restoring",
                        "closing_error"}
        \/ label = "backed" /\ pc[j] = "checked"
<1>1. PICK label : pc' = [pc EXCEPT ![j] = label] /\ Allowed(label)
  <2>1. CASE Serve(j)
    BY <2>1 DEF Serve, Goto
  <2>2. CASE Backup(j)
    BY <2>2 DEF Backup, Goto
  <2>3. CASE Snapshot(j)
    BY <2>3 DEF Snapshot, Goto, Settled
  <2>4. CASE WriteCatalog(j)
    BY <2>4 DEF WriteCatalog, Goto, Settled
  <2>5. CASE WriteToml(j)
    BY <2>5 DEF WriteToml, AfterApply, Goto, Settled
  <2>6. CASE Activate(j)
    BY <2>6 DEF Activate, AfterFailure, Goto, Settled
  <2>7. CASE UndoCatalog(j)
    BY <2>7 DEF UndoCatalog, Goto
  <2>8. CASE SnapshotFails(j) \/ UndoToml(j)
    BY <2>8 DEF SnapshotFails, UndoToml, Goto
  <2> QED
    BY <2>1, <2>2, <2>3, <2>4, <2>5, <2>6, <2>7, <2>8 DEF Transaction
<1>2. UNCHANGED <<file, disk, lock, stored>>
  BY DEF Serve, Backup, Transaction, Snapshot, SnapshotFails, WriteCatalog, WriteToml, Activate,
         UndoCatalog, UndoToml, files, history
<1>3. local \in [Jobs -> Local] /\ local[j] \in Local
  BY DEF TypesInv, MemoryInv
<1>4. \/ local' = local
      \/ lock # j /\ Forget({j})
      \/ \E snapshots \in Codex : local' = [local EXCEPT ![j].snapshots = snapshots]
  <2>1. [catalog |-> catalog, toml |-> toml] \in Codex
    BY DEF Codex, TypesInv, CodexInv
  <2>2. pc[j] = "ready" => lock # j
    BY Outside DEF TypesInv, Holding, Closing, Applying
  <2>3. CASE Serve(j)
    BY <2>2, <2>3 DEF Serve
  <2>4. CASE Snapshot(j)
    BY <2>1, <2>4 DEF Snapshot
  <2>5. CASE SnapshotFails(j) \/ UndoToml(j)
    BY <2>5 DEF SnapshotFails, UndoToml
  <2>6. CASE Backup(j) \/ WriteCatalog(j) \/ WriteToml(j) \/ Activate(j) \/ UndoCatalog(j)
    BY <2>6 DEF Backup, WriteCatalog, WriteToml, Activate, UndoCatalog
  <2> QED
    BY <2>3, <2>4, <2>5, <2>6 DEF Transaction
<1> DEFINE Kept ==
        /\ \A i \in Jobs : i # j => local'[i] = local[i]
        /\ EditsOf(local'[j].doc) \subseteq local'[j].cand.edits
        /\ lock = j => /\ local'[j].doc = local[j].doc /\ local'[j].cand = local[j].cand
                       /\ local'[j].before = local[j].before
<1>5. Kept
  <2>1. EditsOf(local[j].doc) \subseteq local[j].cand.edits
    BY DEF SurviveInv, CandidateKeeps
  <2>2. CASE local' = local
    BY <2>1, <2>2
  <2>3. CASE lock # j /\ Forget({j})
    BY <2>3, NothingKeeps DEF Forget
  <2>4. ASSUME NEW snapshots \in Codex, local' = [local EXCEPT ![j].snapshots = snapshots]
        PROVE  Kept
    <3> DEFINE mine == [local[j] EXCEPT !.snapshots = snapshots]
    <3>1. mine.doc = local[j].doc /\ mine.cand = local[j].cand /\ mine.before = local[j].before
      BY <1>3 DEF Local
    <3>2. local' = [local EXCEPT ![j] = mine]
      BY <1>3, <2>4
    <3> HIDE DEF mine
    <3> QED
      BY <1>3, <2>1, <3>1, <3>2
  <2> QED
    BY <1>4, <2>2, <2>3, <2>4
<1>6. /\ label \in {"checked", "backed"} => pc[j] = "checked"
      /\ label # "replaced"
      /\ label \in Settled => pc[j] \in Settled
  BY <1>1 DEF Settled
<1> HIDE DEF Allowed
<1> QED
  BY <1>1, <1>2, <1>5, <1>6, SurviveFrame

LEMMA SurviveAcquire == ASSUME TypesInv, SurviveInv, NEW j \in Jobs, Acquire(j) PROVE SurviveInv'
<1> DEFINE found == [file |-> file, live |-> live,
                     codex |-> [catalog |-> catalog, toml |-> toml]]
           mine == [local[j] EXCEPT !.before = found]
<1>1. /\ lock = None /\ lock' = j /\ UNCHANGED <<file, disk, stored>>
      /\ local' = [local EXCEPT ![j].before = found]
  BY DEF Acquire, files
<1>2. local \in [Jobs -> Local] /\ local[j] \in Local /\ pc \in [Jobs -> Labels]
  BY DEF TypesInv, MemoryInv, PlacesInv
<1>3. local' = [local EXCEPT ![j] = mine]
  BY <1>1, <1>2
<1>4. mine.doc = local[j].doc /\ mine.cand = local[j].cand /\ mine.before = found
  BY <1>2 DEF Local
<1>5. found.file = file
  OBVIOUS
<1> HIDE DEF found, mine
<1>6. \A i \in Jobs : local'[i].doc = local[i].doc /\ local'[i].cand = local[i].cand
  BY <1>2, <1>3, <1>4
<1>7. local'[j].before.file = file
  BY <1>2, <1>3, <1>4, <1>5
<1>8. PICK label \in {"closing_error", "backed", "checked"} :
          /\ pc' = [pc EXCEPT ![j] = label]
          /\ label # "closing_error" => ~Conflict(j)
  BY DEF Acquire, Goto
<1>9. \A i \in Jobs : pc'[i] = IF i = j THEN label ELSE pc[i]
  BY <1>2, <1>8
<1>10. DoneSurvives'
  BY <1>1 DEF SurviveInv, DoneSurvives
<1>11. CandidateKeeps'
  BY <1>6 DEF SurviveInv, CandidateKeeps
<1>12. FoundKeeps'
  <2>1. stored \subseteq EditsOf(file)
    BY DEF SurviveInv, DoneSurvives, TypesInv, FilesInv
  <2> QED
    BY <1>1, <1>7, <2>1 DEF FoundKeeps
<1>13. DigestHolds'
  <2> SUFFICES ASSUME NEW i \in Jobs, pc'[i] \in {"checked", "backed"}, local'[i].doc # Missing
               PROVE  local'[i].doc = file
    BY <1>1 DEF DigestHolds
  <2>1. CASE i = j
    BY <1>6, <1>8, <1>9, <2>1 DEF Conflict
  <2>2. CASE i # j
    BY <1>6, <1>9, <2>2 DEF SurviveInv, DigestHolds
  <2> QED
    BY <2>1, <2>2
<1>14. ReplacedHolds'
  BY <1>1, <1>6, <1>9 DEF SurviveInv, ReplacedHolds
<1>15. SettledHolds'
  BY <1>1, <1>9 DEF SettledHolds, Settled
<1> QED
  BY <1>10, <1>11, <1>12, <1>13, <1>14, <1>15 DEF SurviveInv

\* A step of the holder of the lock on the file: nobody else is inside.
LEMMA SurviveHeld ==
    ASSUME TypesInv, SurviveInv, NEW j \in Jobs, lock = j, UNCHANGED <<lock, local>>,
           NEW label \in (Holding \cup Applying) \ {"checked", "backed"},
           pc' = [pc EXCEPT ![j] = label], stored' \subseteq stored,
           DoneSurvives', label = "replaced" => file' = local[j].cand,
           label \in Settled => disk' = {local[j].cand}
    PROVE  SurviveInv'
<1>1. /\ \A i \in Jobs : pc'[i] = IF i = j THEN label ELSE pc[i]
      /\ \A i \in Jobs : i # j => pc[i] \notin Holding
      /\ lock' = j /\ local' = local
  BY DEF TypesInv, PlacesInv
<1>2. {"checked", "backed", "replaced"} \subseteq Holding
  BY DEF Holding
<1>3. CandidateKeeps'
  BY <1>1 DEF SurviveInv, CandidateKeeps
<1>4. FoundKeeps'
  BY <1>1 DEF SurviveInv, FoundKeeps
<1>5. DigestHolds'
  BY <1>1, <1>2 DEF DigestHolds
<1>6. ReplacedHolds'
  BY <1>1, <1>2 DEF ReplacedHolds
<1>7. SettledHolds'
  BY <1>1 DEF SettledHolds
<1> QED
  BY <1>3, <1>4, <1>5, <1>6, <1>7 DEF SurviveInv

LEMMA SurviveReplace == ASSUME TypesInv, SurviveInv, NEW j \in Jobs, Replace(j) PROVE SurviveInv'
<1>1. pc[j] = "backed" /\ lock = j /\ UNCHANGED <<lock, local>>
  BY DEF Replace, TypesInv, PlacesInv, Holding
<1>2. local[j].cand \in Contents /\ local[j].cand # Missing
  BY LocalType, ValuesAssumption DEF TypesInv
<1>3. CASE /\ file' = local[j].cand /\ disk' = disk \cup {local[j].cand}
           /\ Goto(j, "replaced") \/ Goto(j, "write_error")
           /\ stored' = IF local[j].doc = Missing /\ file # Missing THEN {} ELSE stored
  <2>1. stored' \subseteq EditsOf(local[j].cand)
    <3>1. EditsOf(local[j].doc) \subseteq EditsOf(local[j].cand)
      BY <1>2 DEF SurviveInv, CandidateKeeps, EditsOf
    <3>2. stored \subseteq EditsOf(file)
      BY DEF SurviveInv, DoneSurvives, TypesInv, FilesInv
    <3>3. local[j].doc # Missing => local[j].doc = file
      BY <1>1 DEF SurviveInv, DigestHolds
    <3>4. local[j].doc = Missing => stored' = {} \/ (file = Missing /\ stored' = stored)
      BY <1>3
    <3>5. EditsOf(Missing) = {}
      BY DEF EditsOf
    <3>6. local[j].doc # Missing => stored' = stored
      BY <1>3
    <3> QED
      BY <3>1, <3>2, <3>3, <3>4, <3>5, <3>6
  <2>2. stored' \subseteq stored
    BY <1>3
  <2>3. DoneSurvives'
    BY <1>3, <2>1, <2>2 DEF SurviveInv, DoneSurvives
  <2>4. PICK label \in {"replaced", "write_error"} : pc' = [pc EXCEPT ![j] = label]
    BY <1>3 DEF Goto
  <2>5. /\ label \in (Holding \cup Applying) \ {"checked", "backed"}
        /\ label \notin Settled
    BY DEF Holding, Closing, Settled
  <2> QED
    BY <1>1, <1>3, <2>2, <2>3, <2>4, <2>5, SurviveHeld
<1>4. CASE Goto(j, "closing_error") /\ UNCHANGED <<files, stored>>
  <2>1. DoneSurvives'
    BY <1>4 DEF SurviveInv, DoneSurvives, files
  <2>2. "closing_error" \in (Holding \cup Applying) \ {"checked", "backed"}
    BY DEF Holding, Closing
  <2>3. "closing_error" \notin Settled
    BY DEF Settled
  <2> QED
    BY <1>1, <1>4, <2>1, <2>2, <2>3, SurviveHeld DEF Goto
<1> QED
  BY <1>3, <1>4 DEF Replace

LEMMA SurviveSync ==
    ASSUME TypesInv, SurviveInv, NEW j \in Jobs, SyncDirectory(j)
    PROVE  SurviveInv'
<1>1. /\ pc[j] = "replaced" /\ lock = j
      /\ UNCHANGED <<file, lock, local, stored>>
      /\ \/ disk' = {file} /\ Goto(j, AfterSync(j))
         \/ disk' = disk /\ Goto(j, "restoring")
  BY DEF SyncDirectory, TypesInv, PlacesInv, Holding, history
<1>2. file = local[j].cand
  BY <1>1 DEF SurviveInv, ReplacedHolds
<1>3. DoneSurvives'
  <2>1. disk' \subseteq disk
    BY <1>1 DEF TypesInv, FilesInv
  <2> QED
    BY <1>1, <2>1 DEF SurviveInv, DoneSurvives
<1>4. PICK label \in {"synced", "applied", "closing_ok", "restoring"} :
          /\ pc' = [pc EXCEPT ![j] = label]
          /\ label # "restoring" => disk' = {local[j].cand}
  BY <1>1, <1>2 DEF AfterSync, Goto
<1>5. label \in (Holding \cup Applying) \ {"checked", "backed"}
  BY DEF Holding, Applying, Closing
<1>6. label \in Settled => label # "restoring"
  BY DEF Settled
<1> QED
  BY <1>1, <1>2, <1>3, <1>4, <1>5, <1>6, SurviveHeld

LEMMA SurviveRestore ==
    ASSUME TypesInv, SurviveInv, NEW j \in Jobs, Restore(j) \/ SyncRestored(j)
    PROVE  SurviveInv'
<1>1. /\ lock = j /\ UNCHANGED <<lock, local, stored>>
      /\ disk' \subseteq disk \cup {local[j].before.file}
  <2>1. file \in disk /\ pc[j] \in {"restoring", "resyncing"}
    BY DEF TypesInv, FilesInv, Restore, SyncRestored
  <2>2. lock = j
    BY <2>1 DEF TypesInv, PlacesInv, Holding
  <2>3. CASE Restore(j)
    <3>1. file' \in {file, local[j].before.file} /\ disk' = disk \cup {file'}
      BY <2>3 DEF Restore
    <3> QED
      BY <2>1, <2>2, <2>3, <3>1 DEF Restore
  <2>4. CASE SyncRestored(j)
    BY <2>1, <2>2, <2>4 DEF SyncRestored, history
  <2> QED
    BY <2>3, <2>4
<1>2. DoneSurvives'
  <2>1. stored \subseteq EditsOf(local[j].before.file)
    BY <1>1 DEF SurviveInv, FoundKeeps
  <2> QED
    BY <1>1, <2>1 DEF SurviveInv, DoneSurvives
<1>3. PICK label \in {"resyncing", "closing_error"} : pc' = [pc EXCEPT ![j] = label]
  BY DEF Restore, SyncRestored, Goto
<1>4. label \in (Holding \cup Applying) \ {"checked", "backed"} /\ label \notin Settled
  BY DEF Holding, Closing, Settled
<1> QED
  BY <1>1, <1>2, <1>3, <1>4, SurviveHeld

LEMMA SurviveRelease == ASSUME TypesInv, SurviveInv, NEW j \in Jobs, Release(j) PROVE SurviveInv'
<1>1. /\ pc[j] \in Closing /\ lock = j /\ lock' = None
      /\ pc' = [pc EXCEPT ![j] = Reported(j)]
      /\ Forget({j}) /\ UNCHANGED <<file, disk>>
      /\ \/ stored' = stored
         \/ pc[j] = "closing_ok" /\ stored' = stored \cup (local[j].cand.edits \cap {j})
  BY DEF Release, Goto, TypesInv, PlacesInv, Holding, files
<1>2. Reported(j) \in {"error", "ok", "idle", "ready"}
  BY DEF Reported
<1>3. /\ \A i \in Jobs : pc'[i] = IF i = j THEN Reported(j) ELSE pc[i]
      /\ \A i \in Jobs : i # j => pc[i] \notin Holding
      /\ \A i \in Jobs : local'[i] = IF i = j THEN Nothing ELSE local[i]
  BY <1>1 DEF TypesInv, PlacesInv, Forget
<1>4. \A i \in Jobs : pc'[i] \notin {"checked", "backed", "replaced"}
  BY <1>2, <1>3 DEF Holding
<1>5. DoneSurvives'
  <2>1. CASE stored' = stored
    BY <1>1, <2>1 DEF SurviveInv, DoneSurvives
  <2>2. CASE /\ pc[j] = "closing_ok"
             /\ stored' = stored \cup (local[j].cand.edits \cap {j})
    <3>1. disk = {local[j].cand}
      BY <1>1, <2>2 DEF SurviveInv, SettledHolds, Settled
    <3>2. EditsOf(local[j].cand) = local[j].cand.edits
      BY LocalType, ValuesAssumption DEF TypesInv, EditsOf
    <3>3. stored \subseteq EditsOf(local[j].cand)
      BY <3>1 DEF SurviveInv, DoneSurvives
    <3> QED
      BY <1>1, <2>2, <3>1, <3>2, <3>3 DEF DoneSurvives
  <2> QED
    BY <1>1, <2>1, <2>2
<1>6. CandidateKeeps'
  BY <1>3, NothingKeeps DEF SurviveInv, CandidateKeeps
<1>7. FoundKeeps'
  BY <1>1, NoneIsNoJob DEF FoundKeeps
<1>8. DigestHolds' /\ ReplacedHolds'
  BY <1>4 DEF DigestHolds, ReplacedHolds
<1>9. SettledHolds'
  BY <1>1, NoneIsNoJob DEF SettledHolds
<1> QED
  BY <1>5, <1>6, <1>7, <1>8, <1>9 DEF SurviveInv

LEMMA SurviveKilled ==
    ASSUME TypesInv, SurviveInv, NEW J \in SUBSET Jobs, Killed(J), UNCHANGED stored,
           \/ UNCHANGED files /\ lock' = IF lock \in J THEN None ELSE lock
           \/ J = Running(Jobs) /\ file' \in disk /\ disk' = {file'} /\ lock' = None
    PROVE  SurviveInv'
<1>1. \A i \in Jobs : /\ pc'[i] = IF i \in J THEN "killed" ELSE pc[i]
                      /\ local'[i] = IF i \in J THEN Nothing ELSE local[i]
  BY DEF Killed, Forget
<1>2. disk' \subseteq disk
  BY DEF files
<1>3. DoneSurvives'
  BY <1>2 DEF SurviveInv, DoneSurvives
<1>4. CandidateKeeps'
  BY <1>1, NothingKeeps DEF SurviveInv, CandidateKeeps
<1>5. FoundKeeps'
  <2> SUFFICES ASSUME NEW i \in Jobs, lock' = i
               PROVE  stored \subseteq EditsOf(local'[i].before.file)
    BY DEF FoundKeeps
  <2>1. lock = i /\ i \notin J
    BY NoneIsNoJob
  <2> QED
    BY <1>1, <2>1 DEF SurviveInv, FoundKeeps
<1>6. ASSUME NEW i \in Jobs, pc'[i] \in {"checked", "backed", "replaced"}
      PROVE  pc[i] = pc'[i] /\ local'[i] = local[i] /\ file' = file
  <2>1. pc[i] = pc'[i] /\ i \notin J /\ local'[i] = local[i]
    BY <1>1, <1>6
  <2>2. i \in Running(Jobs)
    BY <1>6, <2>1 DEF Running, Ended
  <2> QED
    BY <2>1, <2>2 DEF files
<1>7. DigestHolds'
  BY <1>6 DEF SurviveInv, DigestHolds
<1>8. ReplacedHolds'
  BY <1>6 DEF SurviveInv, ReplacedHolds
<1>9. SettledHolds'
  <2> SUFFICES ASSUME NEW i \in Jobs, lock' = i, pc'[i] \in Settled
               PROVE  disk' = {local'[i].cand}
    BY DEF SettledHolds
  <2>1. lock = i /\ i \notin J /\ disk' = disk
    BY NoneIsNoJob DEF files
  <2> QED
    BY <1>1, <2>1 DEF SurviveInv, SettledHolds
<1> QED
  BY <1>3, <1>4, <1>5, <1>7, <1>8, <1>9 DEF SurviveInv

LEMMA SurviveCrash ==
    ASSUME TypesInv, SurviveInv, PowerLoss \/ \E j \in Jobs : Kill(j)
    PROVE  SurviveInv'
<1>1. CASE PowerLoss
  <2>1. /\ Killed(Running(Jobs)) /\ UNCHANGED stored
        /\ file' \in disk /\ disk' = {file'} /\ lock' = None
    BY <1>1 DEF PowerLoss, history
  <2>2. Running(Jobs) \in SUBSET Jobs
    BY DEF Running
  <2> QED
    BY <2>1, <2>2, SurviveKilled
<1>2. ASSUME NEW j \in Jobs, Kill(j)
      PROVE  SurviveInv'
  <2>1. /\ Killed(Process(j)) /\ UNCHANGED stored /\ UNCHANGED files
        /\ lock' = IF lock \in Process(j) THEN None ELSE lock
    BY <1>2 DEF Kill, history
  <2>2. Process(j) \in SUBSET Jobs
    BY DEF Process, Running, Gateway
  <2> QED
    BY <2>1, <2>2, SurviveKilled
<1> QED
  BY <1>1, <1>2

LEMMA SurviveStep == ASSUME TypesInv, SurviveInv, Next PROVE SurviveInv'
<1>1. CASE PowerLoss \/ \E j \in Jobs : Kill(j)
  BY <1>1, SurviveCrash
<1>2. ASSUME NEW j \in Jobs, Begin(j) \/ Step(j)
      PROVE  SurviveInv'
  <2>1. CASE Begin(j)
    BY <2>1, SurviveBegin
  <2>2. CASE Serve(j) \/ Backup(j) \/ Transaction(j)
    BY <2>2, SurviveQuiet
  <2>3. CASE Acquire(j)
    BY <2>3, SurviveAcquire
  <2>4. CASE Replace(j)
    BY <2>4, SurviveReplace
  <2>5. CASE SyncDirectory(j)
    BY <2>5, SurviveSync
  <2>6. CASE Restore(j) \/ SyncRestored(j)
    BY <2>6, SurviveRestore
  <2>7. CASE Release(j)
    BY <2>7, SurviveRelease
  <2> QED
    BY <1>2, <2>1, <2>2, <2>3, <2>4, <2>5, <2>6, <2>7 DEF Step, WriteConfig
<1> QED
  BY <1>1, <1>2 DEF Next

LEMMA SurviveStutter == ASSUME SurviveInv, UNCHANGED vars PROVE SurviveInv'
  BY DEF SurviveInv, DoneSurvives, CandidateKeeps, FoundKeeps, DigestHolds, ReplacedHolds,
         SettledHolds, vars, files, history

LEMMA SurviveInit == ASSUME Init PROVE SurviveInv
<1>1. \A j \in Jobs : local[j] = Nothing /\ pc[j] = "idle"
  BY DEF Init
<1> QED
  BY <1>1, NothingKeeps DEF Init, SurviveInv, DoneSurvives, CandidateKeeps, FoundKeeps,
     DigestHolds, ReplacedHolds, SettledHolds, Settled

\* An edit whose job reported success is in every content a power loss may leave,
\* whatever the other jobs do, whatever fails, and wherever processes are killed or
\* the power is lost, unless a job that had found no file replaced it.
THEOREM ReportedEditSurvives == Spec => []DoneSurvives
<1>1. Init => TypesInv /\ SurviveInv
  BY TypesInit, SurviveInit
<1>2. TypesInv /\ SurviveInv /\ [Next]_vars => (TypesInv /\ SurviveInv)'
  BY TypesStep, TypesStutter, SurviveStep, SurviveStutter
<1>3. SurviveInv => DoneSurvives
  BY DEF SurviveInv
<1> QED
  BY <1>1, <1>2, <1>3, PTL DEF Spec

-----------------------------------------------------------------------------
(* An admin request is all or nothing.  While it is inside, nobody else     *)
(* touches what it changes: not another process, which would need the lock, *)
(* and not a start that synchronizes Codex's files without it, since the    *)
(* gateway does one thing at a time.  So at each place file, Codex's files  *)
(* and the live configuration are known from what it found (before) and     *)
(* what it writes (cand).                                                   *)

OneAtATime == \A g, h \in Gateway : pc[g] \notin Resting /\ pc[h] \notin Resting => g = h

Inside == Holding \cup Applying
CodexBack(j) == catalog = local[j].before.codex.catalog /\ toml = local[j].before.codex.toml
CodexDone(j) == catalog = Target(local[j].cand) /\ toml = Target(local[j].cand)
SnapshotFound(j) == local[j].snapshots = local[j].before.codex

LiveHolds(j) == pc[j] \in Inside \ {"closing_ok"} => live = local[j].before.live
FileHolds(j) ==
    /\ pc[j] \in {"checked", "backed"} => file = local[j].before.file
    /\ pc[j] \in {"resyncing", "closing_error"} /\ j \notin spoiled =>
            file = local[j].before.file
    /\ pc[j] = "write_error" => file = local[j].cand
SnapshotHolds(j) ==
    /\ pc[j] \in {"snapped", "catalogued", "undo_catalog", "undo_toml"} => SnapshotFound(j)
    /\ pc[j] \in {"synced", "snapped", "catalogued"} => HasTransaction(j)
CodexHolds(j) ==
    /\ pc[j] \in {"checked", "backed", "replaced", "write_error", "synced", "snapped"} =>
            CodexBack(j)
    /\ pc[j] = "catalogued" =>
            catalog = Target(local[j].cand) /\ toml = local[j].before.codex.toml
    /\ pc[j] = "applied" => IF HasTransaction(j) THEN CodexDone(j) /\ SnapshotFound(j)
                            ELSE CodexBack(j)
    /\ pc[j] = "undo_toml" /\ j \notin spoiled => catalog = local[j].before.codex.catalog
    /\ pc[j] \in {"restoring", "resyncing", "closing_error"} /\ j \notin spoiled =>
            CodexBack(j)
    /\ pc[j] = "closing_ok" =>
            live = local[j].cand /\ Agrees(local[j].cand, local[j].before.codex)
AdminInv(j) ==
    ~local[j].clears /\ LiveHolds(j) /\ FileHolds(j) /\ SnapshotHolds(j) /\ CodexHolds(j)

AdminsInv == OneAtATime /\ \A j \in Admins : AdminInv(j)

LEMMA AdminIsNoOther == ASSUME NEW j \in Admins PROVE j \notin Commands /\ j \notin Starts /\ j \in Jobs
  BY JobsAssumption

LEMMA AdminOutside ==
    ASSUME NEW j \in Admins, pc'[j] \notin Inside, ~local'[j].clears
    PROVE  AdminInv(j)'
<1>1. {"checked", "backed", "resyncing", "closing_error", "write_error", "snapped", "catalogued",
       "undo_catalog", "undo_toml", "synced", "replaced", "applied", "restoring", "closing_ok"}
          \subseteq Inside
  BY DEF Inside, Holding, Closing, Applying
<1> QED
  BY <1>1 DEF AdminInv, LiveHolds, FileHolds, SnapshotHolds, CodexHolds

LEMMA AdminFrame ==
    ASSUME NEW j \in Admins, AdminInv(j), pc'[j] = pc[j], local'[j] = local[j],
           pc[j] \in Inside => UNCHANGED <<file, catalog, toml, live>>,
           j \in spoiled => j \in spoiled'
    PROVE  AdminInv(j)'
<1>1. CASE pc[j] \in Inside
  <2>1. /\ file' = file /\ catalog' = catalog /\ toml' = toml /\ live' = live
        /\ j \notin spoiled' => j \notin spoiled
    BY <1>1
  <2>2. HasTransaction(j)' <=> HasTransaction(j)
    BY DEF HasTransaction
  <2>3. SnapshotFound(j)' <=> SnapshotFound(j)
    BY DEF SnapshotFound
  <2>4. (CodexBack(j)' <=> CodexBack(j)) /\ (CodexDone(j)' <=> CodexDone(j))
    BY <2>1 DEF CodexBack, CodexDone
  <2>5. Agrees(local[j].cand, local[j].before.codex)'
            <=> Agrees(local[j].cand, local[j].before.codex)
    BY <2>1 DEF Agrees
  <2>6. LiveHolds(j)' /\ FileHolds(j)'
    BY <2>1 DEF AdminInv, LiveHolds, FileHolds
  <2>7. SnapshotHolds(j)'
    BY <2>2, <2>3 DEF AdminInv, SnapshotHolds
  <2>8. CodexHolds(j)'
    BY <2>1, <2>2, <2>3, <2>4, <2>5 DEF AdminInv, CodexHolds
  <2> QED
    BY <2>6, <2>7, <2>8 DEF AdminInv
<1>2. CASE pc[j] \notin Inside
  BY <1>2, AdminOutside DEF AdminInv
<1> QED
  BY <1>1, <1>2

\* A step of one job is about that job.
LEMMA StepIsLocal ==
    ASSUME TypesInv, NEW j \in Jobs, Begin(j) \/ Step(j)
    PROVE  /\ \A i \in Jobs : i # j => pc'[i] = pc[i] /\ local'[i] = local[i]
           /\ spoiled' \subseteq spoiled \cup {j} /\ spoiled \subseteq spoiled'
<1>1. pc \in [Jobs -> Labels] /\ local \in [Jobs -> Local]
  BY DEF TypesInv, PlacesInv, MemoryInv
<1>2. CASE Begin(j)
  <2>1. \/ \E loaded, candidate, clears : Load(j, loaded, candidate, clears)
        \/ UNCHANGED <<local, spoiled>>
    BY <1>2 DEF Begin, LoadCommand, LoadAdmin, StartCreates, StartLoads, StartRefused, history
  <2>2. \E label : Goto(j, label)
    BY <1>2 DEF Begin, LoadCommand, LoadAdmin, StartCreates, StartLoads, StartRefused
  <2> QED
    BY <1>1, <2>1, <2>2 DEF Load, Goto
<1>3. CASE Step(j)
  <2>1. \E label : Goto(j, label)
    BY <1>3 DEF Step, WriteConfig, Acquire, Backup, Replace, SyncDirectory, Restore, SyncRestored,
       Release, Transaction, Snapshot, SnapshotFails, WriteCatalog, WriteToml, Activate,
       UndoCatalog, UndoToml, Serve
  <2>2. \/ UNCHANGED local
        \/ Forget({j})
        \/ \E found : local' = [local EXCEPT ![j].before = found]
        \/ \E snapshots : local' = [local EXCEPT ![j].snapshots = snapshots]
    BY <1>3 DEF Step, WriteConfig, Acquire, Backup, Replace, SyncDirectory, Restore, SyncRestored,
       Release, Transaction, Snapshot, SnapshotFails, WriteCatalog, WriteToml, Activate,
       UndoCatalog, UndoToml, Serve
  <2>3. spoiled' = spoiled \/ spoiled' = spoiled \cup {j}
    BY <1>3 DEF Step, WriteConfig, Acquire, Backup, Replace, SyncDirectory, Restore, SyncRestored,
       Release, Transaction, Snapshot, SnapshotFails, WriteCatalog, WriteToml, Activate,
       UndoCatalog, UndoToml, Serve, history
  <2>4. \A i \in Jobs : i # j => pc'[i] = pc[i]
    BY <1>1, <2>1 DEF Goto
  <2>5. \A i \in Jobs : i # j => local'[i] = local[i]
    BY <1>1, <2>2 DEF Forget
  <2> QED
    BY <2>3, <2>4, <2>5
<1> QED
  BY <1>2, <1>3

\* Where the jobs are that take a step.
LEMMA StepPlaces ==
    ASSUME NEW j \in Jobs, Step(j)
    PROVE  pc[j] \notin Resting
  BY DEF Step, WriteConfig, Acquire, Backup, Replace, SyncDirectory, Restore, SyncRestored,
     Release, Transaction, Snapshot, SnapshotFails, WriteCatalog, WriteToml, Activate,
     UndoCatalog, UndoToml, Serve, Closing, Resting, Ended

LEMMA OneStays ==
    ASSUME TypesInv, OneAtATime, Next
    PROVE  OneAtATime'
<1>1. pc \in [Jobs -> Labels] /\ Gateway \subseteq Jobs
  BY DEF TypesInv, PlacesInv, Gateway
<1>2. CASE PowerLoss \/ \E j \in Jobs : Kill(j)
  <2>1. \A i \in Jobs : pc'[i] = pc[i] \/ pc'[i] = "killed"
    BY <1>2 DEF PowerLoss, Kill, Killed
  <2>2. "killed" \in Resting
    BY DEF Resting, Ended
  <2> QED
    BY <1>1, <2>1, <2>2 DEF OneAtATime
<1>3. ASSUME NEW j \in Jobs, Begin(j) \/ Step(j)
      PROVE  OneAtATime'
  <2>1. \A i \in Jobs : i # j => pc'[i] = pc[i]
    BY <1>3, StepIsLocal
  <2>2. CASE Step(j)
    BY <1>1, <2>1, <2>2, StepPlaces DEF OneAtATime
  <2>3. CASE Begin(j) /\ j \in Gateway
    <3>1. CASE StartRefused(j)
      <4>1. pc'[j] = "error"
        BY <1>1, <3>1 DEF StartRefused, Goto
      <4> QED
        BY <1>1, <2>1, <4>1 DEF OneAtATime, Resting, Ended
    <3>2. CASE ~StartRefused(j)
      <4>1. ~Busy(Gateway)
        BY <2>3, <3>2, JobsAssumption DEF Begin, LoadCommand, LoadAdmin, StartCreates,
           StartLoads, Starting, Gateway
      <4> QED
        BY <1>1, <2>1, <4>1 DEF OneAtATime, Busy
    <3> QED
      BY <3>1, <3>2
  <2>4. CASE j \notin Gateway
    BY <1>1, <2>1, <2>4 DEF OneAtATime
  <2> QED
    BY <1>3, <2>2, <2>3, <2>4
<1> QED
  BY <1>2, <1>3 DEF Next

\* Nobody else disturbs an admin request that is inside.
LEMMA AdminOthers ==
    ASSUME TypesInv, AdminsInv, NEW j \in Admins, NEW i \in Jobs, i # j, Begin(i) \/ Step(i)
    PROVE  AdminInv(j)'
<1>1. /\ j \in Jobs /\ pc'[j] = pc[j] /\ local'[j] = local[j]
      /\ j \in spoiled => j \in spoiled'
  BY StepIsLocal
<1>2. ASSUME pc[j] \in Inside
      PROVE  UNCHANGED <<file, catalog, toml, live>>
  <2>1. lock = j /\ pc[j] \notin Resting
    BY <1>1, <1>2, AdminIsNoOther
       DEF TypesInv, PlacesInv, Inside, Holding, Closing, Applying, Resting, Ended
  <2>2. pc[i] \notin Holding
    BY <2>1 DEF TypesInv, PlacesInv
  <2>3. i \in Starts => pc[i] \in Resting
    BY <1>1, <2>1 DEF AdminsInv, OneAtATime, Gateway
  <2>4. pc[i] \notin Applying
    <3>1. pc[i] \in Applying => i \in Starts /\ pc[i] \notin Resting
      BY <2>1 DEF TypesInv, PlacesInv, Applying, Resting, Ended
    <3> QED
      BY <2>3, <3>1
  <2>5. ~Transaction(i)
    BY <2>4 DEF Transaction, Snapshot, SnapshotFails, WriteCatalog, WriteToml, Activate,
       UndoCatalog, UndoToml, Applying
  <2>6. ~(Backup(i) \/ Replace(i) \/ SyncDirectory(i) \/ Restore(i) \/ SyncRestored(i) \/ Release(i))
    BY <2>2 DEF Backup, Replace, SyncDirectory, Restore, SyncRestored, Release, Holding
  <2>7. ~Serve(i)
    BY <2>3 DEF Serve, Resting, Ended
  <2>8. ~Acquire(i)
    BY <2>1, NoneIsNoJob DEF Acquire
  <2>9. Begin(i)
    BY <2>5, <2>6, <2>7, <2>8 DEF Step, WriteConfig
  <2> QED
    BY <2>9 DEF Begin, LoadCommand, LoadAdmin, StartCreates, StartLoads, StartRefused, Load,
       files, codex
<1> QED
  BY <1>1, <1>2, AdminFrame DEF AdminsInv

LEMMA AdminCrash ==
    ASSUME TypesInv, AdminsInv, NEW j \in Admins, PowerLoss \/ \E i \in Jobs : Kill(i)
    PROVE  AdminInv(j)'
<1>1. j \in Jobs /\ "killed" \notin Inside /\ ~Nothing.clears
  BY DEF Inside, Holding, Closing, Applying, Nothing
<1>2. pc[j] \in Inside => j \in Running(Gateway) /\ j \in Running(Jobs)
  BY <1>1 DEF Running, Gateway, Inside, Holding, Closing, Applying, Ended
<1>3. PICK J \in SUBSET Jobs :
          /\ Killed(J)
          /\ pc[j] \in Inside => j \in J \/ UNCHANGED <<file, catalog, toml, live>>
          /\ UNCHANGED spoiled
  <2>1. CASE PowerLoss
    BY <1>2, <2>1 DEF PowerLoss, Running, history
  <2>2. CASE \E i \in Jobs : Kill(i)
    <3>1. PICK i \in Jobs : Kill(i)
      BY <2>2
    <3>2. /\ Killed(Process(i)) /\ UNCHANGED <<file, catalog, toml, spoiled>>
          /\ i \notin Gateway => UNCHANGED live
      BY <3>1 DEF Kill, files, codex, history
    <3>3. Process(i) \in SUBSET Jobs
      BY DEF Process, Running, Gateway
    <3>4. i \in Gateway /\ pc[j] \in Inside => j \in Process(i)
      BY <1>2 DEF Process
    <3> QED
      BY <3>2, <3>3, <3>4
  <2> QED
    BY <2>1, <2>2
<1>4. CASE j \in J
  BY <1>1, <1>3, <1>4, AdminOutside DEF Killed, Forget
<1>5. CASE j \notin J
  BY <1>1, <1>3, <1>5, AdminFrame DEF Killed, Forget, AdminsInv
<1> QED
  BY <1>4, <1>5

\* A step of the request itself that remembers nothing new.  Each place it can go
\* to asks for what has to be known there.
LEMMA AdminMove ==
    ASSUME NEW j \in Admins, AdminInv(j), UNCHANGED local, NEW label, pc'[j] = label,
           label # "closing_ok" => live' = local[j].before.live,
           label \in {"checked", "backed", "resyncing", "closing_error"} =>
               (j \in spoiled' /\ label = "closing_error") \/ file' = local[j].before.file,
           label = "write_error" => file' = local[j].cand,
           label \in {"snapped", "catalogued", "undo_catalog", "undo_toml"} => SnapshotFound(j),
           label \in {"synced", "snapped", "catalogued"} => HasTransaction(j),
           label \in {"checked", "backed", "replaced", "write_error", "synced", "snapped"} =>
               CodexBack(j)',
           label \in {"restoring", "resyncing", "closing_error"} /\ j \notin spoiled' =>
               CodexBack(j)',
           label = "catalogued" =>
               catalog' = Target(local[j].cand) /\ toml' = local[j].before.codex.toml,
           label = "applied" => IF HasTransaction(j) THEN CodexDone(j)' /\ SnapshotFound(j)
                                ELSE CodexBack(j)',
           label = "undo_toml" /\ j \notin spoiled' => catalog' = local[j].before.codex.catalog,
           label = "closing_ok" =>
               live' = local[j].cand /\ Agrees(local[j].cand, local[j].before.codex)'
    PROVE  AdminInv(j)'
<1>1. /\ local' = local
      /\ HasTransaction(j)' <=> HasTransaction(j)
      /\ SnapshotFound(j)' <=> SnapshotFound(j)
  BY DEF HasTransaction, SnapshotFound
<1>2. LiveHolds(j)'
  BY <1>1 DEF LiveHolds
<1>3. FileHolds(j)'
  BY <1>1 DEF FileHolds
<1>4. SnapshotHolds(j)'
  BY <1>1 DEF SnapshotHolds
<1>5. CodexHolds(j)'
  BY <1>1 DEF CodexHolds
<1> QED
  BY <1>1, <1>2, <1>3, <1>4, <1>5 DEF AdminInv

\* Where the request is inside, and what it does not change, unless it says so.
LEMMA AdminInside ==
    ASSUME TypesInv, NEW j \in Admins, AdminInv(j), pc[j] \in Inside \ {"closing_ok"}
    PROVE  lock = j /\ live = local[j].before.live /\ \A label : Goto(j, label) => pc'[j] = label
<1>1. j \in Jobs /\ pc \in [Jobs -> Labels]
  BY DEF TypesInv, PlacesInv
<1>2. lock = j
  BY <1>1, AdminIsNoOther DEF TypesInv, PlacesInv, Inside
<1> QED
  BY <1>1, <1>2 DEF AdminInv, LiveHolds, Goto

LEMMA AdminLoads ==
    ASSUME TypesInv, NEW j \in Admins, AdminInv(j), Begin(j)
    PROVE  AdminInv(j)'
<1>1. LoadAdmin(j)
  BY AdminIsNoOther DEF Begin, LoadCommand, StartCreates, StartLoads, StartRefused, Starting
<1>2. pc'[j] = "waiting"
  BY <1>1 DEF LoadAdmin, Goto, TypesInv, PlacesInv
<1>3. ~local'[j].clears
  <2>1. local[j] \in Local /\ local \in [Jobs -> Local]
    BY DEF TypesInv, MemoryInv
  <2>3. PICK candidate : Load(j, file, candidate, FALSE)
    BY <1>1 DEF LoadAdmin
  <2>2. local' = [local EXCEPT ![j] = [local[j] EXCEPT !.doc = file, !.cand = candidate,
                                                       !.clears = FALSE]]
    BY <2>1, <2>3 DEF Load
  <2> QED
    BY <2>1, <2>2 DEF Local
<1>4. "waiting" \notin Inside
  BY DEF Inside, Holding, Closing, Applying
<1> QED
  BY <1>2, <1>3, <1>4, AdminOutside

LEMMA AdminAcquires ==
    ASSUME TypesInv, NEW j \in Admins, AdminInv(j), Acquire(j)
    PROVE  AdminInv(j)'
<1> DEFINE found == [file |-> file, live |-> live,
                     codex |-> [catalog |-> catalog, toml |-> toml]]
           mine == [local[j] EXCEPT !.before = found]
<1>1. local \in [Jobs -> Local] /\ local[j] \in Local /\ pc \in [Jobs -> Labels] /\ j \in Jobs
  BY DEF TypesInv, MemoryInv, PlacesInv
<1>2. local' = [local EXCEPT ![j] = mine] /\ UNCHANGED <<file, catalog, toml, live>>
  BY <1>1 DEF Acquire, files, codex
<1>3. mine.clears = local[j].clears /\ mine.before = found
  BY <1>1 DEF Local
<1>4. found.file = file /\ found.live = live /\ found.codex.catalog = catalog
      /\ found.codex.toml = toml
  OBVIOUS
<1> HIDE DEF found, mine
<1>5. /\ ~local'[j].clears
      /\ local'[j].before.file = file' /\ local'[j].before.live = live'
      /\ CodexBack(j)'
  BY <1>1, <1>2, <1>3, <1>4 DEF AdminInv, CodexBack
<1>6. pc'[j] \in {"closing_error", "backed", "checked"}
  BY <1>1 DEF Acquire, Goto
<1> QED
  BY <1>5, <1>6 DEF AdminInv, LiveHolds, FileHolds, SnapshotHolds, CodexHolds

LEMMA AdminWrites ==
    ASSUME TypesInv, SurviveInv, NEW j \in Admins, AdminInv(j),
           Backup(j) \/ Replace(j) \/ SyncDirectory(j) \/ Restore(j) \/ SyncRestored(j)
    PROVE  AdminInv(j)'
<1>1. pc[j] \in {"checked", "backed", "replaced", "restoring", "resyncing"}
  BY DEF Backup, Replace, SyncDirectory, Restore, SyncRestored
<1>2. /\ UNCHANGED <<live, local, catalog, toml>> /\ live = local[j].before.live
      /\ \A label : Goto(j, label) => pc'[j] = label
  <2>1. pc[j] \in Inside \ {"closing_ok"}
    BY <1>1 DEF Inside, Holding
  <2> QED
    BY <2>1, AdminInside DEF Backup, Replace, SyncDirectory, Restore, SyncRestored, codex
<1>3. CodexBack(j)' <=> CodexBack(j)
  BY <1>2 DEF CodexBack
<1>4. CASE Backup(j)
  <2>1. CodexBack(j) /\ file = local[j].before.file /\ file' = file
    BY <1>4 DEF Backup, AdminInv, CodexHolds, FileHolds, files
  <2>2. pc'[j] \in {"backed", "closing_error"}
    BY <1>2, <1>4 DEF Backup
  <2> QED
    BY <1>2, <1>3, <2>1, <2>2, AdminMove
<1>5. CASE Replace(j)
  <2>1. CodexBack(j) /\ file = local[j].before.file
    BY <1>5 DEF Replace, AdminInv, CodexHolds, FileHolds
  <2>2. \/ pc'[j] = "closing_error" /\ file' = file
        \/ pc'[j] \in {"replaced", "write_error"} /\ file' = local[j].cand
    BY <1>2, <1>5 DEF Replace, files
  <2> QED
    BY <1>2, <1>3, <2>1, <2>2, AdminMove
<1>6. CASE SyncDirectory(j)
  <2>1. CodexBack(j)
    BY <1>6 DEF SyncDirectory, AdminInv, CodexHolds
  <2>2. \/ pc'[j] = "restoring"
        \/ HasTransaction(j) /\ pc'[j] = "synced"
        \/ ~HasTransaction(j) /\ pc'[j] = "applied"
    BY <1>2, <1>6 DEF SyncDirectory, AfterSync
  <2> QED
    BY <1>2, <1>3, <2>1, <2>2, AdminMove
<1>7. CASE Restore(j)
  <2>1. j \notin spoiled => CodexBack(j)
    BY <1>7 DEF Restore, AdminInv, CodexHolds
  <2>2. \/ pc'[j] = "resyncing" /\ file' = local[j].before.file /\ spoiled' = spoiled
        \/ pc'[j] = "closing_error" /\ j \in spoiled'
    BY <1>2, <1>7 DEF Restore
  <2> QED
    BY <1>2, <1>3, <2>1, <2>2, AdminMove
<1>8. CASE SyncRestored(j)
  <2>1. j \notin spoiled => CodexBack(j) /\ file = local[j].before.file
    BY <1>8 DEF SyncRestored, AdminInv, CodexHolds, FileHolds
  <2>2. pc'[j] = "closing_error" /\ file' = file /\ spoiled' = spoiled
    BY <1>2, <1>8 DEF SyncRestored, history
  <2> QED
    BY <1>2, <1>3, <2>1, <2>2, AdminMove
<1> QED
  BY <1>4, <1>5, <1>6, <1>7, <1>8

LEMMA AdminReleases ==
    ASSUME TypesInv, NEW j \in Admins, Release(j)
    PROVE  AdminInv(j)'
<1>1. pc \in [Jobs -> Labels] /\ j \in Jobs
  BY DEF TypesInv, PlacesInv
<1>2. pc'[j] = Reported(j) /\ local'[j] = Nothing
  BY <1>1 DEF Release, Goto, Forget
<1>3. Reported(j) \in {"error", "ok", "idle", "ready"}
  BY DEF Reported
<1>4. Reported(j) \notin Inside /\ ~Nothing.clears
  BY <1>3 DEF Inside, Holding, Closing, Applying, Nothing
<1> QED
  BY <1>2, <1>4, AdminOutside

\* For an admin request the transaction is what makes Agrees ask for the target.
LEMMA AdminAgrees ==
    ASSUME NEW j \in Admins, ~local[j].clears, UNCHANGED local,
           IF HasTransaction(j) THEN CodexDone(j)' ELSE CodexBack(j)'
    PROVE  Agrees(local[j].cand, local[j].before.codex)'
<1>1. HasTransaction(j) <=> On(local[j].cand) \/ ~local[j].cand.enabled
  BY AdminIsNoOther DEF HasTransaction
<1>2. local' = local
  OBVIOUS
<1> QED
  BY <1>1, <1>2 DEF Agrees, CodexDone, CodexBack

LEMMA AdminSnapshots ==
    ASSUME TypesInv, NEW j \in Admins, AdminInv(j), Snapshot(j)
    PROVE  AdminInv(j)'
<1> DEFINE found == [catalog |-> catalog, toml |-> toml]
           mine == [local[j] EXCEPT !.snapshots = found]
<1>1. local \in [Jobs -> Local] /\ local[j] \in Local /\ pc \in [Jobs -> Labels] /\ j \in Jobs
  BY DEF TypesInv, MemoryInv, PlacesInv
<1>2. /\ local' = [local EXCEPT ![j] = mine] /\ pc'[j] = "snapped" /\ pc[j] = "synced"
      /\ UNCHANGED <<file, catalog, toml, live, spoiled>>
  BY <1>1 DEF Snapshot, Goto, files, codex, history
<1>3. /\ mine.clears = local[j].clears /\ mine.before = local[j].before
      /\ mine.cand = local[j].cand /\ mine.snapshots = found
  BY <1>1 DEF Local
<1>4. CodexBack(j) /\ HasTransaction(j) /\ live = local[j].before.live
  BY <1>2 DEF AdminInv, CodexHolds, SnapshotHolds, LiveHolds, Inside, Applying
<1>5. found = local[j].before.codex
  <2>1. local[j].before.codex \in Codex
    BY <1>1 DEF Local, Found
  <2> QED
    BY <1>4, <2>1 DEF CodexBack, Codex
<1> HIDE DEF found, mine
<1>6. local'[j] = mine
  BY <1>1, <1>2
<1>7. /\ SnapshotFound(j)' /\ CodexBack(j)' /\ HasTransaction(j)' /\ ~local'[j].clears
      /\ live' = local'[j].before.live
  BY <1>2, <1>3, <1>4, <1>5, <1>6
     DEF AdminInv, SnapshotFound, CodexBack, HasTransaction
<1> QED
  BY <1>2, <1>7 DEF AdminInv, LiveHolds, FileHolds, SnapshotHolds, CodexHolds

\* Nothing was changed when the snapshots cannot be taken, so there is nothing to undo.
LEMMA AdminCannotSnapshot ==
    ASSUME TypesInv, NEW j \in Admins, AdminInv(j), SnapshotFails(j)
    PROVE  AdminInv(j)'
<1>1. lock = j /\ pc[j] = "synced" /\ UNCHANGED <<local, spoiled>>
  <2>1. pc[j] = "synced"
    BY DEF SnapshotFails
  <2>2. lock = j
    BY <2>1, AdminIsNoOther DEF TypesInv, PlacesInv, Applying
  <2> QED
    BY <2>1, <2>2 DEF SnapshotFails, history
<1>2. /\ pc'[j] = "restoring" /\ j \in Jobs
      /\ UNCHANGED <<file, catalog, toml, live>>
  BY <1>1, AdminIsNoOther DEF SnapshotFails, Goto, files, codex, TypesInv, PlacesInv
<1>3. CodexBack(j) /\ live = local[j].before.live /\ ~local[j].clears
  BY <1>1 DEF AdminInv, CodexHolds, LiveHolds, Inside, Applying
<1>4. CodexBack(j)'
  BY <1>1, <1>2, <1>3 DEF CodexBack
<1> QED
  BY <1>1, <1>2, <1>3, <1>4, AdminMove

LEMMA AdminApplies ==
    ASSUME TypesInv, NEW j \in Admins, AdminInv(j), WriteCatalog(j) \/ WriteToml(j) \/ Activate(j)
    PROVE  AdminInv(j)'
<1>1. pc[j] \in {"snapped", "catalogued", "applied"}
  BY DEF WriteCatalog, WriteToml, Activate
<1>2. /\ lock = j /\ UNCHANGED local /\ live = local[j].before.live /\ ~local[j].clears
      /\ \A label : Goto(j, label) => pc'[j] = label
  <2>1. pc[j] \in Inside \ {"closing_ok"}
    BY <1>1 DEF Inside, Holding, Closing, Applying
  <2> QED
    BY <2>1, AdminInside DEF WriteCatalog, WriteToml, Activate, AdminInv
<1>3. CASE WriteCatalog(j)
  <2>1. /\ CodexBack(j) /\ SnapshotFound(j) /\ HasTransaction(j)
        /\ toml' = toml /\ live' = live
    BY <1>3 DEF WriteCatalog, AdminInv, CodexHolds, SnapshotHolds
  <2>2. \/ pc'[j] = "undo_catalog"
        \/ pc'[j] = "catalogued" /\ catalog' = Target(local[j].cand)
    <3>1. local[j].snapshots.catalog = catalog
      BY <2>1 DEF CodexBack, SnapshotFound
    <3> QED
      BY <1>2, <1>3, <3>1 DEF WriteCatalog, Written
  <2>3. toml = local[j].before.codex.toml
    BY <2>1 DEF CodexBack
  <2> QED
    BY <1>2, <2>1, <2>2, <2>3, AdminMove
<1>4. CASE WriteToml(j)
  <2>1. /\ SnapshotFound(j) /\ HasTransaction(j)
        /\ catalog = Target(local[j].cand) /\ toml = local[j].before.codex.toml
        /\ catalog' = catalog /\ live' = live
    BY <1>4 DEF WriteToml, AdminInv, CodexHolds, SnapshotHolds
  <2>2. \/ pc'[j] = "undo_catalog"
        \/ pc'[j] = "applied" /\ toml' = Target(local[j].cand)
    <3>1. local[j].snapshots.toml = toml
      BY <2>1 DEF SnapshotFound
    <3> QED
      BY <1>2, <1>4, <3>1 DEF WriteToml, Written, AfterApply
  <2>3. pc'[j] = "applied" => CodexDone(j)'
    BY <1>2, <2>1, <2>2 DEF CodexDone
  <2> QED
    BY <1>2, <2>1, <2>2, <2>3, AdminMove
<1>5. CASE Activate(j)
  <2>1. /\ catalog' = catalog /\ toml' = toml
        /\ IF HasTransaction(j) THEN CodexDone(j) /\ SnapshotFound(j) ELSE CodexBack(j)
    BY <1>5 DEF Activate, AdminInv, CodexHolds, codex
  <2>2. /\ CodexDone(j)' <=> CodexDone(j)
        /\ CodexBack(j)' <=> CodexBack(j)
    BY <1>2, <2>1 DEF CodexDone, CodexBack
  <2>3. CASE live' = local[j].cand /\ pc'[j] = "closing_ok"
    <3>1. Agrees(local[j].cand, local[j].before.codex)'
      BY <1>2, <2>1, <2>2, AdminAgrees
    <3> QED
      BY <1>2, <2>3, <3>1, AdminMove
  <2>4. CASE live' = live /\ pc'[j] = AfterFailure(j)
    <3>1. \/ pc'[j] = "undo_catalog" /\ SnapshotFound(j)
          \/ pc'[j] = "restoring" /\ CodexBack(j)'
      BY <2>1, <2>2, <2>4 DEF AfterFailure
    <3> QED
      BY <1>2, <2>4, <3>1, AdminMove
  <2> QED
    BY <1>2, <1>5, <2>3, <2>4 DEF Activate
<1> QED
  BY <1>3, <1>4, <1>5

LEMMA AdminUndoes ==
    ASSUME TypesInv, NEW j \in Admins, AdminInv(j), UndoCatalog(j) \/ UndoToml(j)
    PROVE  AdminInv(j)'
<1>1. pc[j] \in {"undo_catalog", "undo_toml"}
  BY DEF UndoCatalog, UndoToml
<1>2. /\ lock = j /\ live = local[j].before.live /\ live' = live
      /\ \A label : Goto(j, label) => pc'[j] = label
  <2>1. pc[j] \in Inside \ {"closing_ok"}
    BY <1>1 DEF Inside, Holding, Closing, Applying
  <2> QED
    BY <2>1, AdminInside DEF UndoCatalog, UndoToml
<1>3. /\ SnapshotFound(j) /\ local' = local
      /\ local[j].snapshots.catalog = local[j].before.codex.catalog
      /\ local[j].snapshots.toml = local[j].before.codex.toml
  BY <1>1, <1>2 DEF UndoCatalog, UndoToml, AdminInv, SnapshotHolds, SnapshotFound
<1>4. CASE UndoCatalog(j)
  <2>1. pc'[j] = "undo_toml"
    BY <1>2, <1>4 DEF UndoCatalog
  <2>2. j \notin spoiled' => catalog' = local[j].before.codex.catalog
    BY <1>3, <1>4 DEF UndoCatalog
  <2> QED
    BY <1>2, <1>3, <2>1, <2>2, AdminMove
<1>5. CASE UndoToml(j)
  <2>1. pc'[j] = "restoring" /\ catalog' = catalog
    BY <1>2, <1>5 DEF UndoToml
  <2>2. j \notin spoiled' => j \notin spoiled /\ toml' = local[j].before.codex.toml
    BY <1>3, <1>5 DEF UndoToml
  <2>3. j \notin spoiled => catalog = local[j].before.codex.catalog
    BY <1>5 DEF UndoToml, AdminInv, CodexHolds
  <2>4. j \notin spoiled' => CodexBack(j)'
    BY <1>3, <2>1, <2>2, <2>3 DEF CodexBack
  <2> QED
    BY <1>2, <1>3, <2>1, <2>4, AdminMove
<1> QED
  BY <1>4, <1>5

LEMMA AdminsStep == TypesInv /\ SurviveInv /\ AdminsInv /\ Next => AdminsInv'
<1> SUFFICES ASSUME TypesInv, SurviveInv, AdminsInv, Next
             PROVE  AdminsInv'
  OBVIOUS
<1>1. OneAtATime'
  BY OneStays DEF AdminsInv
<1>2. ASSUME NEW j \in Admins
      PROVE  AdminInv(j)'
  <2>1. AdminInv(j) /\ j \in Jobs
    BY DEF AdminsInv
  <2>2. CASE PowerLoss \/ \E i \in Jobs : Kill(i)
    BY <2>2, AdminCrash
  <2>3. ASSUME NEW i \in Jobs, i # j, Begin(i) \/ Step(i)
        PROVE  AdminInv(j)'
    BY <2>3, AdminOthers
  <2>4. CASE Begin(j)
    BY <2>1, <2>4, AdminLoads
  <2>5. CASE Step(j)
    <3>1. ~Serve(j)
      BY AdminIsNoOther DEF Serve
    <3>2. CASE Acquire(j)
      BY <2>1, <3>2, AdminAcquires
    <3>3. CASE Backup(j) \/ Replace(j) \/ SyncDirectory(j) \/ Restore(j) \/ SyncRestored(j)
      BY <2>1, <3>3, AdminWrites
    <3>4. CASE Release(j)
      BY <3>4, AdminReleases
    <3>5. CASE Snapshot(j)
      BY <2>1, <3>5, AdminSnapshots
    <3>6. CASE SnapshotFails(j)
      BY <2>1, <3>6, AdminCannotSnapshot
    <3>7. CASE WriteCatalog(j) \/ WriteToml(j) \/ Activate(j)
      BY <2>1, <3>7, AdminApplies
    <3>8. CASE UndoCatalog(j) \/ UndoToml(j)
      BY <2>1, <3>8, AdminUndoes
    <3> QED
      BY <2>5, <3>1, <3>2, <3>3, <3>4, <3>5, <3>6, <3>7, <3>8
         DEF Step, WriteConfig, Transaction
  <2> QED
    BY <2>1, <2>2, <2>3, <2>4, <2>5 DEF Next
<1> QED
  BY <1>1, <1>2 DEF AdminsInv

LEMMA AdminsStutter == AdminsInv /\ UNCHANGED vars => AdminsInv'
<1> SUFFICES ASSUME AdminsInv, UNCHANGED vars
             PROVE  AdminsInv'
  OBVIOUS
<1>1. UNCHANGED <<file, catalog, toml, live, pc, local, spoiled>>
  BY DEF vars, files, codex, history
<1>2. OneAtATime'
  BY <1>1 DEF AdminsInv, OneAtATime
<1>3. ASSUME NEW j \in Admins
      PROVE  AdminInv(j)'
  BY <1>1, AdminFrame DEF AdminsInv
<1> QED
  BY <1>2, <1>3 DEF AdminsInv

LEMMA AdminsInit == Init => AdminsInv
<1> SUFFICES ASSUME Init
             PROVE  AdminsInv
  OBVIOUS
<1>1. \A j \in Jobs : pc[j] = "idle" /\ local[j] = Nothing
  BY DEF Init
<1>2. "idle" \in Resting /\ "idle" \notin Inside /\ ~Nothing.clears
  BY DEF Resting, Ended, Inside, Holding, Closing, Applying, Nothing
<1>3. OneAtATime
  BY <1>1, <1>2 DEF OneAtATime, Gateway
<1>4. ASSUME NEW j \in Admins
      PROVE  AdminInv(j)
  BY <1>1, <1>2 DEF AdminInv, LiveHolds, FileHolds, SnapshotHolds, CodexHolds
<1> QED
  BY <1>3, <1>4 DEF AdminsInv

LEMMA AdminsAllOrNothing == TypesInv /\ SurviveInv /\ AdminsInv => AllOrNothing
<1> SUFFICES ASSUME TypesInv, SurviveInv, AdminsInv, NEW j \in Admins
             PROVE  /\ pc[j] = "closing_ok" =>
                           /\ file = local[j].cand /\ disk = {local[j].cand}
                           /\ live = local[j].cand
                           /\ Agrees(local[j].cand, local[j].before.codex)
                    /\ pc[j] \in {"closing_error", "write_error"} /\ j \notin spoiled =>
                           /\ live = local[j].before.live
                           /\ [catalog |-> catalog, toml |-> toml] = local[j].before.codex
                           /\ file = IF pc[j] = "write_error" THEN local[j].cand
                                     ELSE local[j].before.file
  BY DEF AllOrNothing
<1>1. AdminInv(j) /\ j \in Jobs
  BY DEF AdminsInv
<1>2. ASSUME pc[j] = "closing_ok"
      PROVE  /\ file = local[j].cand /\ disk = {local[j].cand} /\ live = local[j].cand
             /\ Agrees(local[j].cand, local[j].before.codex)
  <2>1. lock = j /\ pc[j] \in Settled /\ file \in disk
    BY <1>1, <1>2 DEF TypesInv, PlacesInv, FilesInv, Holding, Closing, Settled
  <2>2. disk = {local[j].cand}
    BY <1>1, <2>1 DEF SurviveInv, SettledHolds
  <2> QED
    BY <1>1, <1>2, <2>1, <2>2 DEF AdminInv, CodexHolds
<1>3. ASSUME pc[j] \in {"closing_error", "write_error"}, j \notin spoiled
      PROVE  /\ live = local[j].before.live
             /\ [catalog |-> catalog, toml |-> toml] = local[j].before.codex
             /\ file = IF pc[j] = "write_error" THEN local[j].cand
                       ELSE local[j].before.file
  <2>1. live = local[j].before.live
    BY <1>1, <1>3 DEF AdminInv, LiveHolds, Inside, Holding, Closing
  <2>2. file = IF pc[j] = "write_error" THEN local[j].cand ELSE local[j].before.file
    BY <1>1, <1>3 DEF AdminInv, FileHolds
  <2>3. CodexBack(j)
    BY <1>1, <1>3 DEF AdminInv, CodexHolds
  <2>4. local[j].before.codex \in Codex
    BY <1>1 DEF TypesInv, MemoryInv, Local, Found
  <2>5. [catalog |-> catalog, toml |-> toml] = local[j].before.codex
    BY <2>3, <2>4 DEF CodexBack, Codex
  <2> QED
    BY <2>1, <2>2, <2>5
<1> QED
  BY <1>2, <1>3

\* An admin request leaves everything new when it reports success, and
\* everything as it was when it reports an error (_commit_gateway_config and its
\* three rollbacks), whatever fails or is killed.
THEOREM AdminChangeIsAtomic == Spec => []AllOrNothing
<1>1. Init => TypesInv /\ SurviveInv /\ AdminsInv
  BY TypesInit, SurviveInit, AdminsInit
<1>2. TypesInv /\ SurviveInv /\ AdminsInv /\ [Next]_vars => (TypesInv /\ SurviveInv /\ AdminsInv)'
  BY TypesStep, TypesStutter, SurviveStep, SurviveStutter, AdminsStep, AdminsStutter
<1>3. TypesInv /\ SurviveInv /\ AdminsInv => AllOrNothing
  BY AdminsAllOrNothing
<1> QED
  BY <1>1, <1>2, <1>3, PTL DEF Spec

-----------------------------------------------------------------------------
(* A start repairs.  As long as nobody else takes the lock, nobody but the  *)
(* start changes the file, Codex's files or the live configuration: what    *)
(* changes Codex's files without the lock is another start, and that one    *)
(* waits until this one has ended.                                          *)

ServingAlone == \A g, h \in Starts : pc[g] = "serving" => pc[h] \in Resting

Gone == Ended \cup {"idle"}
StartHolds(s) ==
    /\ pc[s] \in {"synced", "snapped", "catalogued"} => file = local[s].cand /\ On(file)
    /\ pc[s] = "snapped" => catalog = local[s].snapshots.catalog
    /\ pc[s] \in {"snapped", "catalogued"} => toml = local[s].snapshots.toml
    /\ pc[s] = "catalogued" => catalog = file
    /\ pc[s] \in {"closing_ok", "ready", "serving"} =>
            (On(file) => catalog = file /\ toml = file)
    /\ pc[s] = "serving" => live = file
QuietInv(s) ==
    /\ ~local[s].clears
    /\ s \in quiet /\ pc[s] \notin Gone => lock \in {None, s} /\ StartHolds(s)

StartsInv == ServingAlone /\ \A s \in Starts : QuietInv(s)

LEMMA StartIsNoOther == ASSUME NEW s \in Starts PROVE s \notin Commands /\ s \notin Admins /\ s \in Jobs
  BY JobsAssumption

LEMMA StartFrame ==
    ASSUME NEW s \in Starts, QuietInv(s), pc'[s] = pc[s], local'[s] = local[s],
           s \in quiet' => s \in quiet,
           s \in quiet' /\ pc[s] \notin Gone =>
               lock' \in {None, s} /\ UNCHANGED <<file, catalog, toml, live>>
    PROVE  QuietInv(s)'
<1>1. ASSUME s \in quiet', pc[s] \notin Gone
      PROVE  lock' \in {None, s} /\ StartHolds(s)'
  <2>1. /\ file' = file /\ catalog' = catalog /\ toml' = toml /\ live' = live
        /\ On(file)' <=> On(file)
    BY <1>1 DEF On
  <2>2. StartHolds(s)
    BY <1>1 DEF QuietInv
  <2> QED
    BY <1>1, <2>1, <2>2 DEF StartHolds
<1> QED
  BY <1>1 DEF QuietInv

LEMMA AloneStays ==
    ASSUME TypesInv, OneAtATime, ServingAlone, Next
    PROVE  ServingAlone'
<1>1. pc \in [Jobs -> Labels] /\ Starts \subseteq Jobs /\ Starts \subseteq Gateway
  BY DEF TypesInv, PlacesInv, Gateway
<1>2. CASE PowerLoss \/ \E j \in Jobs : Kill(j)
  <2>1. \A i \in Jobs : pc'[i] = pc[i] \/ pc'[i] = "killed"
    BY <1>2 DEF PowerLoss, Kill, Killed
  <2> QED
    BY <1>1, <2>1 DEF ServingAlone, Resting, Ended
<1>3. ASSUME NEW j \in Jobs, Begin(j) \/ Step(j)
      PROVE  ServingAlone'
  <2>1. \A i \in Jobs : i # j => pc'[i] = pc[i]
    BY <1>3, StepIsLocal
  <2>2. CASE j \notin Starts
    BY <1>1, <2>1, <2>2 DEF ServingAlone
  <2>3. CASE Step(j) /\ j \in Starts
    <3>1. pc[j] \notin Resting
      BY <2>3, StepPlaces
    <3>2. \A g \in Starts : pc[g] # "serving" /\ (g # j => pc[g] \in Resting)
      BY <1>1, <2>3, <3>1 DEF ServingAlone, OneAtATime
    <3> QED
      BY <1>1, <2>1, <3>2 DEF ServingAlone, Resting
  <2>4. CASE Begin(j) /\ j \in Starts
    <3>1. Starting(j)
      BY <2>4, StartIsNoOther DEF Begin, LoadCommand, LoadAdmin, StartCreates, StartLoads,
         StartRefused
    <3>2. \A g \in Starts : pc[g] # "serving"
      BY <3>1 DEF Starting, Up
    <3>3. pc'[j] # "serving"
      BY <1>1, <2>4, StartIsNoOther DEF Begin, LoadCommand, LoadAdmin, StartCreates, StartLoads,
         StartRefused, Goto
    <3> QED
      BY <1>1, <2>1, <3>2, <3>3 DEF ServingAlone
  <2> QED
    BY <1>3, <2>2, <2>3, <2>4
<1> QED
  BY <1>2, <1>3 DEF Next

LEMMA StartOthers ==
    ASSUME TypesInv, OneAtATime, ServingAlone, NEW s \in Starts, QuietInv(s),
           NEW i \in Jobs, i # s, Begin(i) \/ Step(i)
    PROVE  QuietInv(s)'
<1>1. s \in Jobs /\ pc'[s] = pc[s] /\ local'[s] = local[s]
  BY StepIsLocal
<1>2. CASE Begin(i)
  <2>1. UNCHANGED <<lock, file, catalog, toml, live>>
    BY <1>2 DEF Begin, LoadCommand, LoadAdmin, StartCreates, StartLoads, StartRefused, Load,
       files, codex
  <2>2. s \in quiet' => s \in quiet
    BY <1>2 DEF Begin, LoadCommand, LoadAdmin, StartCreates, StartLoads, StartRefused,
       StartQuietly, history
  <2> QED
    BY <1>1, <2>1, <2>2, StartFrame DEF QuietInv
<1>3. CASE Acquire(i)
  <2>1. s \notin quiet'
    BY <1>3 DEF Acquire
  <2> QED
    BY <1>1, <2>1, StartFrame
<1>4. CASE Step(i) /\ ~Acquire(i)
  <2>1. quiet' = quiet /\ pc[i] \notin Resting
    <3>1. pc[i] \notin Resting
      BY <1>4, StepPlaces
    <3> QED
      BY <1>4, <3>1 DEF Step, WriteConfig, Backup, Replace, SyncDirectory, Restore, SyncRestored,
         Release, Transaction, Snapshot, SnapshotFails, WriteCatalog, WriteToml, Activate,
         UndoCatalog, UndoToml, Serve, history
  <2>2. ASSUME s \in quiet, pc[s] \notin Gone
        PROVE  FALSE
    <3>1. lock # i
      BY <1>1, <2>2, NoneIsNoJob DEF QuietInv
    <3>2. i \notin Starts
      BY <1>1, <2>1, <2>2 DEF OneAtATime, ServingAlone, Gone, Resting, Gateway
    <3>3. pc[i] \notin Holding /\ pc[i] \notin Applying
      BY <3>1, <3>2 DEF TypesInv, PlacesInv
    <3>4. ~Transaction(i)
      BY <3>3 DEF Transaction, Snapshot, SnapshotFails, WriteCatalog, WriteToml, Activate,
         UndoCatalog, UndoToml, Applying
    <3>5. ~WriteConfig(i)
      BY <1>4, <3>3 DEF WriteConfig, Backup, Replace, SyncDirectory, Restore, SyncRestored,
         Release, Holding
    <3> QED
      BY <1>4, <3>2, <3>4, <3>5 DEF Step, Serve
  <2> QED
    BY <1>1, <2>1, <2>2, StartFrame
<1> QED
  BY <1>2, <1>3, <1>4

LEMMA StartCrash ==
    ASSUME TypesInv, NEW s \in Starts, QuietInv(s), PowerLoss \/ \E i \in Jobs : Kill(i)
    PROVE  QuietInv(s)'
<1>1. s \in Jobs /\ "killed" \in Gone /\ ~Nothing.clears
  BY DEF Gone, Ended, Nothing
<1>2. pc[s] \notin Gone => s \in Running(Gateway) /\ s \in Running(Jobs)
  BY <1>1 DEF Running, Gateway, Gone
<1>3. PICK J \in SUBSET Jobs :
          /\ Killed(J) /\ UNCHANGED quiet
          /\ pc[s] \notin Gone =>
                s \in J \/ (UNCHANGED <<file, catalog, toml, live>> /\ lock' \in {None, lock})
  <2>1. CASE PowerLoss
    BY <1>2, <2>1 DEF PowerLoss, Running, history
  <2>2. CASE \E i \in Jobs : Kill(i)
    <3>1. PICK i \in Jobs : Kill(i)
      BY <2>2
    <3>2. /\ Killed(Process(i)) /\ UNCHANGED <<file, catalog, toml, quiet>>
          /\ lock' \in {None, lock}
          /\ i \notin Gateway => UNCHANGED live
      BY <3>1 DEF Kill, files, codex, history
    <3>3. Process(i) \in SUBSET Jobs
      BY DEF Process, Running, Gateway
    <3>4. i \in Gateway /\ pc[s] \notin Gone => s \in Process(i)
      BY <1>2 DEF Process
    <3> QED
      BY <3>2, <3>3, <3>4
  <2> QED
    BY <2>1, <2>2
<1>4. CASE s \in J
  BY <1>1, <1>3, <1>4 DEF Killed, Forget, QuietInv
<1>5. CASE s \notin J
  <2>1. pc'[s] = pc[s] /\ local'[s] = local[s]
    BY <1>1, <1>3, <1>5 DEF Killed, Forget
  <2>2. pc[s] \notin Gone /\ s \in quiet' => lock' \in {None, s}
    BY <1>3, <1>5 DEF QuietInv
  <2> QED
    BY <1>3, <1>5, <2>1, <2>2, StartFrame
<1> QED
  BY <1>4, <1>5

LEMMA StartBegins ==
    ASSUME TypesInv, NEW s \in Starts, QuietInv(s), Begin(s)
    PROVE  QuietInv(s)'
<1>1. /\ pc \in [Jobs -> Labels] /\ local \in [Jobs -> Local] /\ local[s] \in Local
      /\ s \in Jobs /\ file \in Files
  BY DEF TypesInv, PlacesInv, MemoryInv, FilesInv
<1>2. CASE StartRefused(s)
  <2>1. pc'[s] = "error" /\ local' = local
    BY <1>1, <1>2 DEF StartRefused, Goto
  <2> QED
    BY <2>1 DEF QuietInv, Gone, Ended
<1>3. CASE StartCreates(s) \/ StartLoads(s)
  <2>1. s \in quiet' => lock = None
    BY <1>3 DEF StartCreates, StartLoads, StartQuietly
  <2>2. PICK loaded, candidate :
            /\ Load(s, loaded, candidate, FALSE)
            /\ \/ Goto(s, "waiting")
               \/ candidate = file /\ Goto(s, IF On(file) THEN "synced" ELSE "ready")
    <3>1. CASE StartCreates(s)
      BY <3>1 DEF StartCreates
    <3>2. CASE StartLoads(s)
      <4>1. PICK c, writes : /\ Load(s, file, IF writes THEN Edited(s, c) ELSE file, FALSE)
                             /\ Goto(s, IF writes THEN "waiting"
                                        ELSE IF On(file) THEN "synced" ELSE "ready")
        BY <3>2 DEF StartLoads
      <4> QED
        BY <4>1
    <3> QED
      BY <1>3, <3>1, <3>2
  <2> DEFINE mine == [local[s] EXCEPT !.doc = loaded, !.cand = candidate, !.clears = FALSE]
  <2>3. local' = [local EXCEPT ![s] = mine] /\ UNCHANGED <<file, lock>>
    BY <1>1, <2>2 DEF Load, files
  <2>4. mine.cand = candidate /\ mine.clears = FALSE
    BY <1>1 DEF Local
  <2> HIDE DEF mine
  <2>5. local'[s].cand = candidate /\ ~local'[s].clears
    BY <1>1, <2>3, <2>4
  <2>6. \/ pc'[s] = "waiting"
        \/ pc'[s] = "synced" /\ candidate = file /\ On(file)
        \/ pc'[s] = "ready" /\ ~On(file)
    BY <1>1, <2>2 DEF Goto
  <2>7. On(file)' <=> On(file)
    BY <2>3 DEF On
  <2> QED
    BY <2>1, <2>3, <2>5, <2>6, <2>7 DEF QuietInv, StartHolds
<1> QED
  BY <1>2, <1>3, StartIsNoOther DEF Begin, LoadCommand, LoadAdmin

\* A step of the start itself.  Each place it can go to asks for what has to be
\* known there.
LEMMA StartMove ==
    ASSUME NEW s \in Starts, ~local'[s].clears, quiet' = quiet,
           s \in quiet => lock' \in {None, s},
           s \in quiet =>
               \/ pc'[s] \in Gone \cup {"checked", "backed", "replaced", "write_error",
                                        "closing_error", "restoring", "resyncing",
                                        "undo_catalog", "undo_toml"}
               \/ StartHolds(s)'
    PROVE  QuietInv(s)'
  BY DEF QuietInv, StartHolds

LEMMA StartWrites ==
    ASSUME TypesInv, SurviveInv, NEW s \in Starts, QuietInv(s), WriteConfig(s)
    PROVE  QuietInv(s)'
<1>1. /\ pc \in [Jobs -> Labels] /\ local \in [Jobs -> Local] /\ local[s] \in Local
      /\ s \in Jobs /\ \A label : Goto(s, label) => pc'[s] = label
  BY DEF TypesInv, PlacesInv, MemoryInv, Goto
<1>2. pc[s] \notin Gone /\ lock' \in {None, s}
  BY <1>1 DEF WriteConfig, Acquire, Backup, Replace, SyncDirectory, Restore, SyncRestored, Release,
     TypesInv, PlacesInv, Holding, Closing, Gone, Ended
<1>3. CASE Acquire(s)
  <2>1. PICK found : local' = [local EXCEPT ![s] = [local[s] EXCEPT !.before = found]]
    BY <1>1, <1>3 DEF Acquire
  <2>2. ~local'[s].clears
    BY <1>1, <2>1 DEF QuietInv, Local
  <2>3. pc'[s] \in {"closing_error", "backed", "checked"}
    BY <1>1, <1>3 DEF Acquire
  <2> QED
    BY <1>2, <2>2, <2>3 DEF QuietInv, StartHolds
<1>4. CASE Backup(s) \/ Replace(s) \/ Restore(s) \/ SyncRestored(s)
  <2>1. /\ pc'[s] \in {"backed", "closing_error", "replaced", "write_error", "resyncing"}
        /\ UNCHANGED <<local, quiet>>
    BY <1>1, <1>4 DEF Backup, Replace, Restore, SyncRestored, history
  <2> QED
    BY <1>2, <2>1, StartMove DEF QuietInv
<1>5. CASE SyncDirectory(s)
  <2>1. file' = file /\ file = local[s].cand /\ UNCHANGED <<local, quiet>> /\ pc[s] = "replaced"
    BY <1>1, <1>5 DEF SyncDirectory, SurviveInv, ReplacedHolds, history
  <2>2. \/ pc'[s] = "restoring"
        \/ pc'[s] = "synced" /\ On(file)
        \/ pc'[s] = "closing_ok" /\ ~On(file)
    BY <1>1, <1>5, <2>1, StartIsNoOther DEF SyncDirectory, AfterSync, HasTransaction, QuietInv
  <2>3. On(file)' <=> On(file)
    BY <2>1 DEF On
  <2>4. pc'[s] = "restoring" \/ StartHolds(s)'
    BY <2>1, <2>2, <2>3 DEF StartHolds
  <2> QED
    BY <1>2, <2>1, <2>4, StartMove DEF QuietInv
<1>6. CASE Release(s)
  <2>1. /\ local'[s] = Nothing /\ ~Nothing.clears /\ quiet' = quiet
        /\ UNCHANGED <<file, catalog, toml>>
    BY <1>1, <1>6 DEF Release, Forget, Nothing, files, codex
  <2>2. pc'[s] \in {"error", "ok", "idle"} \/ (pc'[s] = "ready" /\ pc[s] = "closing_ok")
    <3>1. pc'[s] = Reported(s)
      BY <1>1, <1>6 DEF Release
    <3> QED
      BY <3>1 DEF Reported
  <2>3. On(file)' <=> On(file)
    BY <2>1 DEF On
  <2>4. s \in quiet => pc'[s] \in Gone \/ StartHolds(s)'
    BY <1>2, <2>1, <2>2, <2>3 DEF QuietInv, StartHolds, Gone, Ended
  <2> QED
    BY <1>2, <2>1, <2>4, StartMove
<1> QED
  BY <1>3, <1>4, <1>5, <1>6 DEF WriteConfig

LEMMA StartApplies ==
    ASSUME TypesInv, NEW s \in Starts, QuietInv(s), Transaction(s)
    PROVE  QuietInv(s)'
<1>1. /\ pc \in [Jobs -> Labels] /\ local \in [Jobs -> Local] /\ local[s] \in Local
      /\ s \in Jobs /\ \A label : Goto(s, label) => pc'[s] = label
  BY DEF TypesInv, PlacesInv, MemoryInv, Goto
<1>2. /\ pc[s] \in {"synced", "snapped", "catalogued", "undo_catalog", "undo_toml"}
      /\ ~Activate(s)
      /\ quiet' = quiet /\ UNCHANGED <<file, lock>>
  BY <1>1, StartIsNoOther DEF Transaction, Snapshot, SnapshotFails, WriteCatalog, WriteToml,
     Activate, UndoCatalog, UndoToml, TypesInv, PlacesInv, files, history
<1>3. /\ On(file)' <=> On(file)
      /\ s \in quiet => lock' \in {None, s} /\ StartHolds(s)
  BY <1>2 DEF On, QuietInv, Gone, Ended
<1>4. On(file) => Target(file) = file /\ file # Unmanaged
  BY ValuesAssumption DEF On, Target
<1>5. CASE Snapshot(s)
  <2> DEFINE found == [catalog |-> catalog, toml |-> toml]
             mine == [local[s] EXCEPT !.snapshots = found]
  <2>1. /\ local' = [local EXCEPT ![s] = mine] /\ pc'[s] = "snapped" /\ pc[s] = "synced"
        /\ UNCHANGED <<catalog, toml>>
    BY <1>1, <1>5 DEF Snapshot, codex
  <2>2. /\ mine.clears = local[s].clears /\ mine.cand = local[s].cand
        /\ mine.snapshots.catalog = catalog /\ mine.snapshots.toml = toml
    BY <1>1 DEF Local
  <2> HIDE DEF found, mine
  <2>3. local'[s] = mine
    BY <1>1, <2>1
  <2>4. s \in quiet => StartHolds(s)'
    BY <1>2, <1>3, <2>1, <2>2, <2>3 DEF StartHolds
  <2> QED
    BY <1>2, <1>3, <2>2, <2>3, <2>4, StartMove DEF QuietInv
<1>6. CASE WriteCatalog(s)
  <2>1. UNCHANGED <<local, toml>> /\ pc[s] = "snapped"
    BY <1>6 DEF WriteCatalog
  <2>2. s \in quiet => pc'[s] = "undo_catalog" \/ (pc'[s] = "catalogued" /\ catalog' = file)
    <3> SUFFICES ASSUME s \in quiet
                 PROVE  pc'[s] = "undo_catalog" \/ (pc'[s] = "catalogued" /\ catalog' = file)
      OBVIOUS
    <3>1. Target(local[s].cand) = file /\ file # Unmanaged /\ catalog = local[s].snapshots.catalog
      BY <1>3, <1>4, <2>1 DEF StartHolds
    <3>2. \/ Goto(s, "undo_catalog")
          \/ Goto(s, "catalogued") /\ Written(catalog, local[s].snapshots.catalog, file, catalog')
      BY <1>6, <3>1 DEF WriteCatalog
    <3> QED
      BY <1>1, <3>1, <3>2 DEF Written
  <2>3. s \in quiet => pc'[s] = "undo_catalog" \/ StartHolds(s)'
    BY <1>2, <1>3, <2>1, <2>2 DEF StartHolds
  <2> QED
    BY <1>2, <1>3, <2>1, <2>3, StartMove DEF QuietInv
<1>7. CASE WriteToml(s)
  <2>1. UNCHANGED <<local, catalog>> /\ pc[s] = "catalogued"
    BY <1>7 DEF WriteToml
  <2>2. s \in quiet => \/ pc'[s] = "undo_catalog"
                       \/ pc'[s] \in {"closing_ok", "ready"} /\ toml' = file /\ catalog = file
    BY <1>1, <1>3, <1>4, <1>7, <2>1, StartIsNoOther
       DEF WriteToml, Written, AfterApply, StartHolds
  <2>3. s \in quiet => pc'[s] = "undo_catalog" \/ StartHolds(s)'
    BY <1>2, <2>1, <2>2 DEF StartHolds
  <2> QED
    BY <1>2, <1>3, <2>1, <2>3, StartMove DEF QuietInv
<1>8. CASE UndoCatalog(s)
  <2>1. UNCHANGED local /\ pc'[s] = "undo_toml"
    BY <1>1, <1>8 DEF UndoCatalog
  <2> QED
    BY <1>2, <1>3, <2>1, StartMove DEF QuietInv
<1>9. CASE SnapshotFails(s) \/ UndoToml(s)
  <2>1. /\ pc'[s] \in {"restoring", "error"}
        /\ local'[s] = local[s] \/ local'[s] = Nothing
    BY <1>1, <1>9 DEF SnapshotFails, UndoToml, Forget
  <2>2. ~Nothing.clears /\ "error" \in Gone
    BY DEF Nothing, Gone, Ended
  <2> QED
    BY <1>2, <1>3, <2>1, <2>2, StartMove DEF QuietInv
<1> QED
  BY <1>2, <1>5, <1>6, <1>7, <1>8, <1>9 DEF Transaction

LEMMA StartServes ==
    ASSUME TypesInv, NEW s \in Starts, QuietInv(s), Serve(s)
    PROVE  QuietInv(s)'
<1>1. pc \in [Jobs -> Labels] /\ s \in Jobs
  BY DEF TypesInv, PlacesInv
<1>2. /\ pc[s] = "ready" /\ local'[s] = Nothing /\ ~Nothing.clears /\ quiet' = quiet
      /\ UNCHANGED <<file, lock, catalog, toml>>
      /\ pc'[s] = "error" \/ (pc'[s] = "serving" /\ live' = file)
  <2>1. local'[s] = Nothing /\ ~Nothing.clears
    BY <1>1 DEF Serve, Forget, Nothing
  <2>2. pc'[s] = "error" \/ (pc'[s] = "serving" /\ live' = file)
    BY <1>1 DEF Serve, Goto
  <2> QED
    BY <2>1, <2>2 DEF Serve, files, codex, history
<1>3. On(file)' <=> On(file)
  BY <1>2 DEF On
<1>4. s \in quiet => lock' \in {None, s} /\ (pc'[s] \in Gone \/ StartHolds(s)')
  BY <1>2, <1>3 DEF QuietInv, StartHolds, Gone, Ended
<1> QED
  BY <1>2, <1>4, StartMove

LEMMA StartsStep == TypesInv /\ SurviveInv /\ OneAtATime /\ StartsInv /\ Next => StartsInv'
<1> SUFFICES ASSUME TypesInv, SurviveInv, OneAtATime, StartsInv, Next
             PROVE  StartsInv'
  OBVIOUS
<1>1. ServingAlone'
  BY AloneStays DEF StartsInv
<1>2. ASSUME NEW s \in Starts
      PROVE  QuietInv(s)'
  <2>1. QuietInv(s) /\ ServingAlone /\ s \in Jobs
    BY DEF StartsInv
  <2>2. CASE PowerLoss \/ \E i \in Jobs : Kill(i)
    BY <2>1, <2>2, StartCrash
  <2>3. ASSUME NEW i \in Jobs, i # s, Begin(i) \/ Step(i)
        PROVE  QuietInv(s)'
    BY <2>1, <2>3, StartOthers
  <2>4. CASE Begin(s)
    BY <2>1, <2>4, StartBegins
  <2>5. CASE Step(s)
    BY <2>1, <2>5, StartWrites, StartApplies, StartServes DEF Step
  <2> QED
    BY <2>1, <2>2, <2>3, <2>4, <2>5 DEF Next
<1> QED
  BY <1>1, <1>2 DEF StartsInv

LEMMA StartsStutter == StartsInv /\ UNCHANGED vars => StartsInv'
<1> SUFFICES ASSUME StartsInv, UNCHANGED vars
             PROVE  StartsInv'
  OBVIOUS
<1>1. UNCHANGED <<file, lock, catalog, toml, live, pc, local, quiet>>
  BY DEF vars, files, codex, history
<1>2. ServingAlone'
  BY <1>1 DEF StartsInv, ServingAlone
<1>3. ASSUME NEW s \in Starts
      PROVE  QuietInv(s)'
  <2>1. QuietInv(s)
    BY DEF StartsInv
  <2> QED
    BY <1>1, <2>1, StartFrame DEF QuietInv
<1> QED
  BY <1>2, <1>3 DEF StartsInv

LEMMA StartsInit == Init => StartsInv
  BY DEF Init, StartsInv, ServingAlone, QuietInv, Nothing

\* A gateway that comes up repairs what a crash left: it serves the file as it
\* is, and with local mode on Codex's files were generated from it (write_config
\* and the synchronization of _configure_local_mode_startup), as long as nobody
\* else took the lock since it read the file.
THEOREM StartLeavesAgreement == Spec => []StartRepairs
<1>1. Init => TypesInv /\ SurviveInv /\ AdminsInv /\ StartsInv
  BY TypesInit, SurviveInit, AdminsInit, StartsInit
<1>2. TypesInv /\ SurviveInv /\ AdminsInv /\ StartsInv /\ [Next]_vars
          => (TypesInv /\ SurviveInv /\ AdminsInv /\ StartsInv)'
  <2>1. AdminsInv => OneAtATime
    BY DEF AdminsInv
  <2> QED
    BY <2>1, TypesStep, TypesStutter, SurviveStep, SurviveStutter, AdminsStep, AdminsStutter,
       StartsStep, StartsStutter
<1>3. TypesInv /\ StartsInv => StartRepairs
  <2> SUFFICES ASSUME TypesInv, StartsInv, NEW s \in quiet, pc[s] = "serving"
               PROVE  live = file /\ (On(file) => catalog = file /\ toml = file)
    BY DEF StartRepairs
  <2>1. s \in Starts /\ pc[s] \notin Gone
    BY DEF TypesInv, CountsInv, Gone, Ended
  <2> QED
    BY <2>1 DEF StartsInv, QuietInv, StartHolds
<1> QED
  BY <1>1, <1>2, <1>3, PTL DEF Spec
=============================================================================

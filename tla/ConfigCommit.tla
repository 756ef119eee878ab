----------------------------- MODULE ConfigCommit ----------------------------
(***************************************************************************)
(* How the configuration file is changed: write_config of                  *)
(* gateway/config.py, and those who call it.  A job is one of them:        *)
(*   - an `add` command (gateway/cli.py): writes the file only;            *)
(*   - `local-mode clear` (gateway/cli.py): turns local mode off and takes *)
(*     Rosetta's settings out of the files of Codex, a catalog and a TOML  *)
(*     file that are not Rosetta's own;                                    *)
(*   - an admin request (gateway/admin/routes/_shared.py): writes the      *)
(*     file, brings Codex's files in line and swaps the configuration the  *)
(*     gateway runs with;                                                  *)
(*   - a start of the gateway (gateway/cli.py): may create the file, may   *)
(*     record local mode and its confirmation, synchronizes Codex's files, *)
(*     and then reads the configuration it serves.                         *)
(*                                                                         *)
(* Commands are processes of their own, admin requests and the start are   *)
(* steps of the one gateway process.  Any step on a file may fail; a       *)
(* process may be killed, and the machine may lose its power, anywhere.    *)
(*                                                                         *)
(* A content of the file is the set of jobs whose edits are in it and the  *)
(* two flags of local mode.  Codex's files are Unmanaged or hold what was  *)
(* generated from a content.  The backup file is left out, its failing     *)
(* write is not; so are edits made by hand while a job runs.               *)
(***************************************************************************)
EXTENDS Naturals, FiniteSets

CONSTANTS
    Commands, Admins, Starts,      \* the jobs, by kind; each runs once
    StartFlags,                    \* of "local", "no_local", "confirm"
    Missing, Unmanaged, None,
    MaxFaults, MaxCrashes          \* bounds of the model

Jobs == Commands \cup Admins \cup Starts

ASSUME JobsAssumption ==
    /\ Commands \cap (Admins \cup Starts) = {} /\ Admins \cap Starts = {}
    /\ None \notin Jobs
    /\ StartFlags \subseteq {"local", "no_local", "confirm"}
    /\ MaxFaults \in Nat /\ MaxCrashes \in Nat

Contents == [edits : SUBSET Jobs, enabled : BOOLEAN, confirmed : BOOLEAN]
Files == Contents \cup {Missing}

ASSUME ValuesAssumption == Missing \notin Contents /\ Unmanaged \notin Contents

VARIABLES
    file,          \* the configuration file, as a process reads it
    disk,          \* the contents a power loss may leave in its place
    lock,          \* the job that holds the flock
    catalog, toml, \* Codex's files
    codex_disk,    \* what a power loss may leave in them: their directory is
                   \* never synced
    live,          \* what the gateway serves, None when it is down
    pc,            \* where a job is
    local,         \* what a job remembers: what it loaded and what it writes
                   \* (doc, cand), whether it is `local-mode clear` (clears),
                   \* what it found when it got the lock (before), and Codex's
                   \* files when it began to change them (snapshots)
    faults, crashes,
    \* History, for the properties:
    stored,        \* edits whose job reported success
    spoiled,       \* jobs of which a compensating step failed
    quiet          \* starts during which nobody else took the lock

files == <<file, disk>>
codex == <<catalog, toml, codex_disk>>
history == <<stored, spoiled, quiet>>
vars == <<files, lock, codex, live, pc, local, faults, crashes, history>>

-----------------------------------------------------------------------------
(* Contents. *)

Fresh == [edits |-> {}, enabled |-> TRUE, confirmed |-> FALSE]
On(c) == c \in Contents /\ c.enabled /\ c.confirmed
EditsOf(c) == IF c = Missing THEN {} ELSE c.edits

\* What Codex's files hold once they agree with content c.
Target(c) == IF On(c) THEN c ELSE Unmanaged

Ended == {"ok", "error", "killed"}
Closing == {"closing_ok", "closing_error", "write_error"}
Resting == Ended \cup {"idle", "serving"}
Gateway == Admins \cup Starts
Busy(J) == \E j \in J : pc[j] \notin Resting
Up == \E s \in Starts : pc[s] = "serving"

Codex == [catalog : Contents \cup {Unmanaged}, toml : Contents \cup {Unmanaged}]
Found == [file : Files, live : Contents \cup {None}, codex : Codex]
Local == [doc : Files, cand : Contents, clears : BOOLEAN, before : Found, snapshots : Codex]
NoCodex == [catalog |-> Unmanaged, toml |-> Unmanaged]
Nothing == [doc |-> Missing, cand |-> Fresh, clears |-> FALSE, snapshots |-> NoCodex,
            before |-> [file |-> Missing, live |-> None, codex |-> NoCodex]]

Init ==
    /\ file \in {Missing} \cup [edits : {{}}, enabled : BOOLEAN, confirmed : BOOLEAN]
    /\ disk = {file}
    /\ lock = None
    /\ catalog = Target(file) /\ toml = Target(file)
    /\ codex_disk = {Target(file)}
    /\ live = None
    /\ pc = [j \in Jobs |-> "idle"]
    /\ local = [j \in Jobs |-> Nothing]
    /\ faults = 0 /\ crashes = 0
    /\ stored = {} /\ spoiled = {} /\ quiet = {}

-----------------------------------------------------------------------------
(* Loading and editing.  The digest of what was loaded is the content; a   *)
(* job that finds no file has no digest.                                   *)

Goto(j, label) == pc' = [pc EXCEPT ![j] = label]
Forget(J) == local' = [j \in Jobs |-> IF j \in J THEN Nothing ELSE local[j]]
Fault == faults < MaxFaults /\ faults' = faults + 1
NoFault == UNCHANGED faults

Edited(j, c) == [c EXCEPT !.edits = @ \cup {j}]

Load(j, loaded, candidate, clears) ==
    /\ local' = [local EXCEPT ![j].doc = loaded, ![j].cand = candidate,
                              ![j].clears = clears]
    /\ UNCHANGED <<files, lock, codex, live, faults, crashes, stored, spoiled>>

\* _load_or_create_config and the edit of an `add` or `clear` command.
LoadCommand(j) ==
    LET added == Edited(j, IF file = Missing THEN Fresh ELSE file) IN
    /\ j \in Commands /\ pc[j] = "idle"
    /\ Goto(j, "waiting")
    /\ \/ Load(j, file, added, FALSE)
       \/ Load(j, file, [added EXCEPT !.enabled = FALSE], TRUE)
    /\ UNCHANGED quiet

\* An admin request; it may turn local mode on, with its confirmation, or off.
LoadAdmin(j) ==
    /\ j \in Admins /\ pc[j] = "idle"
    /\ Up /\ ~Busy(Gateway) /\ file # Missing
    /\ Goto(j, "waiting")
    /\ \E c \in {file, [file EXCEPT !.enabled = FALSE],
                 [file EXCEPT !.enabled = TRUE, !.confirmed = TRUE]} :
           Load(j, file, Edited(j, c), FALSE)
    /\ UNCHANGED quiet

\* The flags of the start, and the answer if it has to ask.
Requested(c) ==
    LET enabled == {c.enabled} \cup {TRUE : f \in StartFlags \cap {"local"}}
                               \cup {FALSE : f \in StartFlags \cap {"no_local"}}
        confirmed == {c.confirmed} \cup {TRUE : f \in StartFlags \cap {"confirm"}}
    IN  {[c EXCEPT !.enabled = flags[1], !.confirmed = flags[2]] :
            flags \in enabled \X confirmed}
Asks(c) == c.enabled /\ ~c.confirmed
Answered(c) ==
    IF Asks(c) THEN {[c EXCEPT !.confirmed = TRUE], [c EXCEPT !.enabled = FALSE]}
    ELSE {c}

StartQuietly(s) == quiet' = IF lock = None THEN quiet \cup {s} ELSE quiet \ {s}

Starting(s) == s \in Starts /\ pc[s] = "idle" /\ ~Up /\ ~Busy(Gateway)

\* No file: write the template, then come back here.
StartCreates(s) ==
    /\ Starting(s) /\ file = Missing
    /\ Goto(s, "waiting")
    /\ Load(s, Missing, Fresh, FALSE)
    /\ StartQuietly(s)

\* The start writes when it changed something, or when, with local mode on, the file
\* had no API key for Codex (ensure_codex_api_key adds one); what the key is and
\* whether it was there are not modelled.
WritesFor(c) == {writes \in BOOLEAN : (c # file => writes) /\ (writes => c # file \/ On(c))}

\* Mutant: Codex's files are taken to be what they were.
StartLoads_trusting(s) ==
    /\ Starting(s) /\ file # Missing
    /\ \E wanted \in Requested(file) : \E c \in Answered(wanted) : \E writes \in WritesFor(c) :
           /\ Load(s, file, IF writes THEN Edited(s, c) ELSE file, FALSE)
           /\ Goto(s, IF writes THEN "waiting" ELSE "ready")
    /\ StartQuietly(s)

\* _configure_local_mode_startup up to the writing: only a change is written, and
\* without one Codex's files are synchronized at once, with no lock held.
StartLoads(s) ==
    /\ Starting(s) /\ file # Missing
    /\ \E wanted \in Requested(file) : \E c \in Answered(wanted) : \E writes \in WritesFor(c) :
           /\ Load(s, file, IF writes THEN Edited(s, c) ELSE file, FALSE)
           /\ Goto(s, IF writes THEN "waiting"
                      ELSE IF On(file) THEN "synced" ELSE "ready")
    /\ StartQuietly(s)

\* It has to ask and there is no terminal.
StartRefused(s) ==
    /\ Starting(s) /\ file # Missing
    /\ \E wanted \in Requested(file) : Asks(wanted)
    /\ Goto(s, "error")
    /\ UNCHANGED <<files, lock, codex, live, local, faults,
                   crashes, history>>

\* create_app with what load_config reads now.
Serve(s) ==
    /\ s \in Starts /\ pc[s] = "ready"
    /\ IF file = Missing
       THEN Goto(s, "error") /\ UNCHANGED live
       ELSE Goto(s, "serving") /\ live' = file
    /\ Forget({s})
    /\ UNCHANGED <<files, lock, codex, faults, crashes, history>>

-----------------------------------------------------------------------------
(* write_config. *)

\* Mutant: no digest is compared.
Conflict_never(j) == FALSE

Conflict(j) == local[j].doc # Missing /\ local[j].doc # file

Acquire(j) ==
    /\ pc[j] = "waiting" /\ lock = None
    /\ lock' = j
    /\ local' = [local EXCEPT ![j].before =
           [file |-> file, live |-> live,
            codex |-> [catalog |-> catalog, toml |-> toml]]]
    /\ Goto(j, IF Conflict(j) THEN "closing_error"
               ELSE IF file = Missing THEN "backed" ELSE "checked")
    /\ quiet' = quiet \ (Starts \ {j})
    /\ UNCHANGED <<files, codex, live, faults, crashes, stored, spoiled>>

Backup(j) ==
    /\ pc[j] = "checked"
    /\ \/ NoFault /\ Goto(j, "backed")
       \/ Fault /\ Goto(j, "closing_error")
    /\ UNCHANGED <<files, lock, codex, live, local, crashes,
                   history>>

\* _atomic_write_bytes(path, serialized): the new content is complete on disk
\* before it gets its name, so a power loss leaves the old file or the new one.
\* It may fail before that or, changing the mode, after it; then nothing undoes
\* it.  A job that found no file replaces one that has appeared since.
Replace(j) ==
    /\ pc[j] = "backed"
    /\ \/ /\ Fault /\ Goto(j, "closing_error")
          /\ UNCHANGED <<files, stored>>
       \/ /\ \/ NoFault /\ Goto(j, "replaced")
             \/ Fault /\ Goto(j, "write_error")
          /\ file' = local[j].cand
          /\ disk' = disk \cup {local[j].cand}
          /\ stored' = IF local[j].doc = Missing /\ file # Missing THEN {} ELSE stored
    /\ UNCHANGED <<lock, codex, live, local, crashes,
                   spoiled, quiet>>

\* Whether `activate` includes a CodexLocalModeTransaction.
HasTransaction(j) ==
    \/ local[j].clears
    \/ j \in Starts /\ On(local[j].cand)
    \/ j \in Admins /\ (On(local[j].cand) \/ ~local[j].cand.enabled)

AfterSync(j) ==
    IF HasTransaction(j) THEN "synced" ELSE IF j \in Admins THEN "applied"
    ELSE "closing_ok"

SyncDirectory(j) ==
    /\ pc[j] = "replaced"
    /\ \/ NoFault /\ disk' = {file} /\ Goto(j, AfterSync(j))
       \/ Fault /\ Goto(j, "restoring") /\ UNCHANGED disk
    /\ UNCHANGED <<file, lock, codex, live, local, crashes,
                   history>>

\* The restore after a failed sync or activation, and its own sync.
Restore(j) ==
    /\ pc[j] = "restoring"
    /\ \/ NoFault /\ Goto(j, "resyncing") /\ file' = local[j].before.file /\ UNCHANGED spoiled
       \/ /\ Fault /\ Goto(j, "closing_error") /\ file' \in {file, local[j].before.file}
          /\ spoiled' = spoiled \cup {j}
    /\ disk' = disk \cup {file'}
    /\ UNCHANGED <<lock, codex, live, local, crashes, stored,
                   quiet>>

SyncRestored(j) ==
    /\ pc[j] = "resyncing"
    /\ Goto(j, "closing_error")
    /\ (NoFault /\ disk' = {file}) \/ (Fault /\ UNCHANGED disk)
    /\ UNCHANGED <<file, lock, codex, live, local, crashes,
                   history>>

\* The lock is closed, and the caller reports.  A start that has created the
\* file goes on from the beginning.
Reported(j) ==
    IF pc[j] # "closing_ok" THEN "error"
    ELSE IF j \notin Starts THEN "ok"
    ELSE IF local[j].doc = Missing THEN "idle" ELSE "ready"

\* Mutant: an error leaves the lock file open.
Release_leaks(j) ==
    /\ pc[j] \in Closing
    /\ lock' = IF pc[j] = "closing_ok" THEN None ELSE lock
    /\ Goto(j, Reported(j))
    /\ Forget({j})
    /\ UNCHANGED <<files, codex, live, faults, crashes, history>>

Release(j) ==
    /\ pc[j] \in Closing
    /\ lock' = None
    /\ Goto(j, Reported(j))
    /\ stored' = IF pc[j] = "closing_ok" THEN stored \cup (local[j].cand.edits \cap {j})
                 ELSE stored
    /\ Forget({j})
    /\ UNCHANGED <<files, codex, live, faults, crashes, spoiled, quiet>>

-----------------------------------------------------------------------------
(* CodexLocalModeTransaction, and the activation of an admin request. *)

Snapshot(j) ==
    /\ pc[j] = "synced"
    /\ local' = [local EXCEPT ![j].snapshots = [catalog |-> catalog, toml |-> toml]]
    /\ Goto(j, "snapped")
    /\ UNCHANGED <<files, lock, codex, live, faults, crashes,
                   history>>

\* makedirs or the reading of a file fails: nothing was changed, and rollback() of a
\* transaction without snapshots does nothing.
SnapshotFails(j) ==
    /\ pc[j] = "synced" /\ Fault
    /\ IF lock = j THEN Goto(j, "restoring") /\ UNCHANGED local
       ELSE Goto(j, "error") /\ Forget({j})
    /\ UNCHANGED <<files, lock, codex, live, crashes, history>>

\* A file that is as it should be, going by its snapshot, is not written, but
\* the catalog is unlinked whatever the snapshot says; a write may fail before
\* or after it has replaced the file.
Written(old, snapshot, new, result) ==
    IF snapshot = new THEN result = old ELSE result = new

WriteCatalog(j) ==
    /\ pc[j] = "snapped"
    /\ \/ /\ NoFault /\ Goto(j, "catalogued")
          /\ IF Target(local[j].cand) = Unmanaged THEN catalog' = Unmanaged
             ELSE Written(catalog, local[j].snapshots.catalog, Target(local[j].cand), catalog')
       \/ /\ Fault /\ Goto(j, "undo_catalog")
          /\ local[j].snapshots.catalog # Target(local[j].cand)
          /\ catalog' \in {catalog, Target(local[j].cand)}
    /\ codex_disk' = codex_disk \cup {catalog'}
    /\ UNCHANGED <<files, lock, toml, live, local, crashes,
                   history>>

AfterApply(j) ==
    IF j \in Admins THEN "applied" ELSE IF lock = j THEN "closing_ok" ELSE "ready"

WriteToml(j) ==
    /\ pc[j] = "catalogued"
    /\ \/ /\ NoFault /\ Goto(j, AfterApply(j))
          /\ Written(toml, local[j].snapshots.toml, Target(local[j].cand), toml')
       \/ /\ Fault /\ Goto(j, "undo_catalog")
          /\ local[j].snapshots.toml # Target(local[j].cand)
          /\ toml' \in {toml, Target(local[j].cand)}
    /\ codex_disk' = codex_disk \cup {toml'}
    /\ UNCHANGED <<files, lock, catalog, live, local, crashes,
                   history>>

\* Mutant: Codex's files stay when the activation fails.
AfterFailure_undone(j) == "restoring"

AfterFailure(j) == IF HasTransaction(j) THEN "undo_catalog" ELSE "restoring"

\* _activate_gateway_config: only the commit of the log's retention can fail,
\* and it comes first; the rest is assignments.
Activate(j) ==
    /\ pc[j] = "applied"
    /\ \/ NoFault /\ live' = local[j].cand /\ Goto(j, "closing_ok")
       \/ Fault /\ Goto(j, AfterFailure(j)) /\ UNCHANGED live
    /\ UNCHANGED <<files, lock, codex, local, crashes, history>>

\* rollback() of the transaction: both files, even if the first one fails.
UndoCatalog(j) ==
    /\ pc[j] = "undo_catalog"
    /\ Goto(j, "undo_toml")
    /\ \/ NoFault /\ catalog' = local[j].snapshots.catalog /\ UNCHANGED spoiled
       \/ /\ Fault /\ catalog' \in {catalog, local[j].snapshots.catalog}
          /\ spoiled' = spoiled \cup {j}
    /\ codex_disk' = codex_disk \cup {catalog'}
    /\ UNCHANGED <<files, lock, toml, live, local, crashes,
                   stored, quiet>>

UndoToml(j) ==
    /\ pc[j] = "undo_toml"
    /\ IF lock = j THEN Goto(j, "restoring") /\ UNCHANGED local
       ELSE Goto(j, "error") /\ Forget({j})
    /\ \/ NoFault /\ toml' = local[j].snapshots.toml /\ UNCHANGED spoiled
       \/ /\ Fault /\ toml' \in {toml, local[j].snapshots.toml}
          /\ spoiled' = spoiled \cup {j}
    /\ codex_disk' = codex_disk \cup {toml'}
    /\ UNCHANGED <<files, lock, catalog, live, crashes,
                   stored, quiet>>

-----------------------------------------------------------------------------
(* Crashes. *)

Running(J) == {j \in J : pc[j] \notin Ended \cup {"idle"}}
Killed(J) ==
    /\ pc' = [j \in Jobs |-> IF j \in J THEN "killed" ELSE pc[j]]
    /\ Forget(J)

\* The jobs that live in the process of j.
Process(j) == IF j \in Gateway THEN Running(Gateway) ELSE {j}

\* The kernel closes the files of a killed process, and the flock with them.
Kill(j) ==
    /\ crashes < MaxCrashes /\ crashes' = crashes + 1
    /\ j \in Running(Jobs)
    /\ Killed(Process(j))
    /\ lock' = IF lock \in Process(j) THEN None ELSE lock
    /\ live' = IF j \in Gateway THEN None ELSE live
    /\ UNCHANGED <<files, codex, faults, history>>

PowerLoss ==
    /\ crashes < MaxCrashes /\ crashes' = crashes + 1
    /\ Killed(Running(Jobs))
    /\ lock' = None /\ live' = None
    /\ file' \in disk /\ disk' = {file'}
    /\ catalog' \in codex_disk /\ toml' \in codex_disk
    /\ codex_disk' = {catalog', toml'}
    /\ UNCHANGED <<faults, history>>

-----------------------------------------------------------------------------
Begin(j) ==
    LoadCommand(j) \/ LoadAdmin(j) \/ StartCreates(j) \/ StartLoads(j) \/ StartRefused(j)
WriteConfig(j) ==
    \/ Acquire(j) \/ Backup(j) \/ Replace(j) \/ SyncDirectory(j)
    \/ Restore(j) \/ SyncRestored(j) \/ Release(j)
Transaction(j) ==
    \/ Snapshot(j) \/ SnapshotFails(j) \/ WriteCatalog(j) \/ WriteToml(j) \/ Activate(j)
    \/ UndoCatalog(j) \/ UndoToml(j)
Step(j) == WriteConfig(j) \/ Transaction(j) \/ Serve(j)

Next == PowerLoss \/ \E j \in Jobs : Begin(j) \/ Step(j) \/ Kill(j)

Spec == Init /\ [][Next]_vars

-----------------------------------------------------------------------------
(* Properties. *)

Holding == Closing \cup {"checked", "backed", "replaced", "restoring", "resyncing"}
Applying == {"synced", "snapped", "catalogued", "applied", "undo_catalog", "undo_toml"}
Labels == Resting \cup Holding \cup Applying \cup {"waiting", "ready"}

\* The types of the variables; who is inside write_config holds the lock, and a
\* lock that is held is held by a job that is still inside; what a process reads
\* is one of the contents a power loss may leave.
TypeOK ==
    /\ file \in Files /\ disk \subseteq Files /\ file \in disk
    /\ lock \in Jobs \cup {None}
    /\ catalog \in codex_disk /\ toml \in codex_disk
    /\ codex_disk \subseteq Contents \cup {Unmanaged}
    /\ live \in Contents \cup {None}
    /\ pc \in [Jobs -> Labels]
    /\ local \in [Jobs -> Local]
    /\ faults \in 0..MaxFaults /\ crashes \in 0..MaxCrashes
    /\ stored \subseteq Jobs /\ spoiled \subseteq Jobs /\ quiet \subseteq Starts
    /\ \A j \in Jobs : pc[j] \in Holding => lock = j
    /\ lock # None => pc[lock] \in Holding \cup Applying

\* An edit whose job reported success is in the file, and stays there through
\* edits of others, failures, crashes and power losses, unless a job that had
\* found no file at all replaces it (lock, digest and directory sync of
\* write_config; the restore must not take others' edits with it).
DoneSurvives == \A c \in disk : stored \subseteq EditsOf(c)

Agrees(c, old) ==
    IF On(c) \/ ~c.enabled
    THEN catalog = Target(c) /\ toml = Target(c)
    ELSE catalog = old.catalog /\ toml = old.toml

\* When an admin request reports success, file, Codex's files and the live
\* configuration are all the new ones, and the file survives a power loss;
\* when it reports an error they are all as it found them, unless undoing
\* failed too.  Only a write that failed after replacing the file leaves the
\* new one behind (_commit_gateway_config with its three rollbacks).
AllOrNothing ==
    \A j \in Admins :
        /\ pc[j] = "closing_ok" =>
               /\ file = local[j].cand /\ disk = {local[j].cand} /\ live = local[j].cand
               /\ Agrees(local[j].cand, local[j].before.codex)
        /\ pc[j] \in {"closing_error", "write_error"} /\ j \notin spoiled =>
               /\ live = local[j].before.live
               /\ [catalog |-> catalog, toml |-> toml] = local[j].before.codex
               /\ file = IF pc[j] = "write_error" THEN local[j].cand ELSE local[j].before.file

\* Whatever a crash left behind, a gateway that has come up serves the file as
\* it is and, with local mode on, Codex's two files were generated from it, as
\* long as nobody else took the lock since it read the file.
StartRepairs ==
    \A s \in quiet : pc[s] = "serving" =>
        live = file /\ (On(file) => catalog = file /\ toml = file)

\* Disabling local mode removes the managed catalog and the settings in the
\* TOML file: with nobody at work and local mode off, Codex is unmanaged.
ClearedStaysCleared ==
    ~Busy(Jobs) /\ file # Missing /\ ~file.enabled => catalog = Unmanaged /\ toml = Unmanaged
=============================================================================

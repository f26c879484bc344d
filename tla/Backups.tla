------------------------------- MODULE Backups --------------------------------
(***************************************************************************)
(* tools/db_backup.py: runs that back the database up, prune old backups   *)
(* and restore one, beside the application, which goes on writing, and     *)
(* beside each other. A run may fail or be killed at any step. The data is *)
(* abstracted to a version; a file that pg_dump or a disk left unusable    *)
(* holds Broken. Two runs of one kind do not begin in the same second:     *)
(* they would share their file names.                                      *)
(***************************************************************************)
EXTENDS Integers, FiniteSets

CONSTANTS
  Operators,    \* runs of the tool that may overlap
  Keep,         \* --keep
  Broken,       \* what is no whole version of the data
  MaxVersion,   \* bound on the versions
  MaxStamp      \* bound on the clock

Versions == 0 .. MaxVersion

ASSUME BackupsAssumption == Keep \in Nat \ {0} /\ MaxVersion \in Nat /\ Broken \notin Versions

VARIABLES
  live,      \* what the live database holds
  versions,  \* how many versions there have been
  clock,     \* the second, as it shows in file names
  op,        \* what each run is doing
  job,       \* its command, its file's stamp, the backup it restores or removes
  partial,   \* what its .partial file holds
  doomed,    \* the backups its prune has still to remove
  dumps,     \* the finished backups in the directory
  manifests, \* their manifests
  finished   \* history: every backup ever finished

backups == <<live, versions, clock, op, job, partial, doomed, dumps,
             manifests, finished>>
database == <<live, versions, clock>>
scratch == <<partial, doomed>>
directory == <<dumps, manifests, finished>>

NoFile == [stamp |-> 0, safety |-> FALSE, holds |-> Broken]
NoJob == [command |-> "none", stamp |-> 0, target |-> NoFile]

BackupsInit ==
  /\ live = 0 /\ versions = 0 /\ clock = 1
  /\ op = [p \in Operators |-> "idle"]
  /\ job = [p \in Operators |-> NoJob]
  /\ partial = [p \in Operators |-> Broken]
  /\ doomed = [p \in Operators |-> {}]
  /\ dumps = {} /\ manifests = {} /\ finished = {}

-----------------------------------------------------------------------------
Advance(p, from, to) == op[p] = from /\ op' = [op EXCEPT ![p] = to]

Safety(p) == job[p].command = "restore"
File(p, holds) == [stamp |-> job[p].stamp, safety |-> Safety(p), holds |-> holds]
Regular(files) == {f \in files : ~f.safety}

(* main: `backup`, unless the newest one is young enough. *)
BeginBackup(p) ==
  /\ Advance(p, "idle", "dumping")
  /\ ~\E q \in Operators : job[q].command = "backup" /\ job[q].stamp = clock
  /\ ~\E f \in Regular(finished) : f.stamp = clock
  /\ job' = [job EXCEPT ![p] = [command |-> "backup", stamp |-> clock, target |-> NoFile]]
  /\ UNCHANGED <<database, scratch, directory>>

(* `restore FILE --yes`: verify refuses a file that is not what its        *)
(* manifest says, or does not restore.                                     *)
BeginRestore(p, f) ==
  /\ Advance(p, "idle", "dumping")
  /\ f \in dumps /\ f.holds # Broken
  /\ \A m \in manifests : m.stamp = f.stamp /\ m.safety = f.safety => m.holds = f.holds
  /\ ~\E q \in Operators : job[q].command = "restore" /\ job[q].stamp = clock
  /\ ~\E g \in finished : g.safety /\ g.stamp = clock
  /\ job' = [job EXCEPT ![p] = [command |-> "restore", stamp |-> clock, target |-> f]]
  /\ UNCHANGED <<database, scratch, directory>>

-----------------------------------------------------------------------------
(* backup                                                                  *)

(* pg_dump writes the data of one moment to the .partial file, which may   *)
(* not be readable again.                                                  *)
Dump(p) ==
  /\ Advance(p, "dumping", "drilling")
  /\ \E holds \in {live, Broken} : partial' = [partial EXCEPT ![p] = holds]
  /\ UNCHANGED <<database, job, doomed, directory>>

(* Mutant: pg_dump's word is enough. *)
DrillTrusted(p) == TRUE
(* restore_drill: restored into a database of its own, or an error. *)
Drill(p) == partial[p] # Broken

TestRestore(p) ==
  /\ Advance(p, "drilling", "recording")
  /\ Drill(p)
  /\ UNCHANGED <<database, job, scratch, directory>>

Except(stamp, safety) == {m \in manifests : m.stamp # stamp \/ m.safety # safety}
WriteManifest(p) ==
  /\ Advance(p, "recording", "naming")
  /\ manifests' = Except(job[p].stamp, Safety(p)) \cup {File(p, partial[p])}
  /\ UNCHANGED <<database, job, scratch, dumps, finished>>

(* partial.replace(final); a safety backup prunes nothing. *)
NameDump(p) ==
  /\ Advance(p, "naming", IF Safety(p) THEN "copying" ELSE "pruning")
  /\ dumps' = dumps \cup {File(p, partial[p])}
  /\ finished' = finished \cup {File(p, partial[p])}
  /\ UNCHANGED <<database, job, scratch, manifests>>

(* prune: all but the newest Keep, *)
Newer(f, files) == {g \in Regular(files) : g.stamp > f.stamp}
FindOld(p) ==
  /\ Advance(p, "pruning", "unlinking")
  /\ doomed' = [doomed EXCEPT ![p] =
       {f \in Regular(dumps) : Cardinality(Newer(f, dumps)) >= Keep}]
  /\ UNCHANGED <<database, job, partial, directory>>

(* one dump after the other, where one that another run has removed is an  *)
(* error, *)
RemoveOld(p, f) ==
  /\ Advance(p, "unlinking", "tidying")
  /\ f \in doomed[p] \cap dumps
  /\ job' = [job EXCEPT ![p].target = f]
  /\ dumps' = dumps \ {f}
  /\ doomed' = [doomed EXCEPT ![p] = @ \ {f}]
  /\ UNCHANGED <<database, partial, manifests, finished>>

(* and each dump's manifest after it: a run killed in between leaves that. *)
UnlinkManifest(p) ==
  /\ Advance(p, "tidying", "unlinking")
  /\ manifests' = Except(job[p].target.stamp, job[p].target.safety)
  /\ UNCHANGED <<database, job, scratch, dumps, finished>>

-----------------------------------------------------------------------------
(* replace_data                                                            *)

(* The backup goes into the container, and becomes a script. *)
CopyBackup(p) ==
  /\ Advance(p, "copying", "scripting")
  /\ job[p].target \in dumps
  /\ UNCHANGED <<database, job, scratch, directory>>

(* The script is complete before psql sees any of it. *)
Script(p) == {job[p].target.holds}

(* TRUNCATE and the data, in one transaction. *)
LoadData(p) ==
  /\ Advance(p, "scripting", "restored")
  /\ live' \in Script(p)
  /\ UNCHANGED <<versions, clock, job, scratch, directory>>

-----------------------------------------------------------------------------
(* The run is over: in success, in an error, which removes its .partial    *)
(* file, or killed, which leaves that behind, never to be read again.      *)
EndRun(p) ==
  /\ op[p] # "idle"
  /\ op' = [op EXCEPT ![p] = "idle"]
  /\ job' = [job EXCEPT ![p] = NoJob]
  /\ partial' = [partial EXCEPT ![p] = Broken]
  /\ doomed' = [doomed EXCEPT ![p] = {}]
  /\ UNCHANGED <<database, directory>>

(* The application writes. *)
Write ==
  /\ versions < MaxVersion
  /\ versions' = versions + 1
  /\ live' = versions'
  /\ UNCHANGED <<clock, op, job, scratch, directory>>

NextSecond ==
  /\ clock < MaxStamp
  /\ clock' = clock + 1
  /\ UNCHANGED <<live, versions, op, job, scratch, directory>>

BackupsNext ==
  \/ \E p \in Operators :
       \/ BeginBackup(p) \/ Dump(p) \/ TestRestore(p)
       \/ WriteManifest(p) \/ NameDump(p) \/ FindOld(p) \/ UnlinkManifest(p) \/ CopyBackup(p)
       \/ LoadData(p) \/ EndRun(p)
       \/ \E f \in dumps : BeginRestore(p, f) \/ RemoveOld(p, f)
  \/ Write
  \/ NextSecond

BackupsSpec == BackupsInit /\ [][BackupsNext]_backups

-----------------------------------------------------------------------------
(* Every backup in the directory can be restored and is what its manifest  *)
(* says, the newest one and the safety backups are never pruned, and the   *)
(* live data is a whole version that can be taken back to what the safety  *)
(* backup caught, wherever runs overlap, fail or are killed (backup,       *)
(* prune, restore).                                                        *)
GoodBackups ==
  /\ \A f \in dumps : f.holds # Broken
  /\ \A f \in dumps, m \in manifests :
       m.stamp = f.stamp /\ m.safety = f.safety => m.holds = f.holds
  /\ \A f \in finished : f.safety \/ Newer(f, finished) = {} => f \in dumps
  /\ live # Broken
  /\ \A p \in Operators : op[p] = "restored" => File(p, partial[p]) \in dumps
=============================================================================

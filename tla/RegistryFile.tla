---------------------------- MODULE RegistryFile ----------------------------
(***************************************************************************)
(* What the updater promises about the registry file: it names no text, or *)
(* one that is whole.  An update replaces the text in one step or does not *)
(* touch it; only a power failure may bring back a text the file had       *)
(* before.  A scan that loads the file obtains the text it had at one      *)
(* moment.  No mechanism: no temporary file, no writes, no stages.         *)
(***************************************************************************)
EXTENDS VendorListings

CONSTANTS
    Updater,   \* processes that may run an update
    Reader,    \* scans that load the registry
    OldText    \* the text the file holds at first, if there is one

VARIABLES
    file,      \* the text the file names, or None
    earlier,   \* the texts a power failure may bring back
    progress,  \* progress[u]: "away", "running", "replaced" or "failed"
    loaded     \* loaded[r]: the text a scan obtained, or None

fileVars == <<file, earlier, progress, loaded>>

FileInit ==
    /\ file \in {None, OldText}
    /\ earlier = {file}
    /\ progress = [u \in Updater |-> "away"]
    /\ loaded = [r \in Reader |-> None]

Begin(u) ==
    /\ progress[u] # "running"
    /\ progress' = [progress EXCEPT ![u] = "running"]
    /\ UNCHANGED <<file, earlier, loaded>>

Replace(u) ==
    /\ progress[u] = "running"
    /\ progress' = [progress EXCEPT ![u] = "replaced"]
    /\ WholeText(file')
    /\ earlier' = earlier \cup {file'}
    /\ UNCHANGED loaded

GiveUp(u) ==
    /\ progress[u] = "running"
    /\ progress' = [progress EXCEPT ![u] = "failed"]
    /\ UNCHANGED <<file, earlier, loaded>>

Killed(u) ==
    /\ progress[u] \in {"running", "replaced"}
    /\ progress' = [progress EXCEPT ![u] = "away"]
    /\ UNCHANGED <<file, earlier, loaded>>

Load(r) ==
    /\ file # None
    /\ loaded' = [loaded EXCEPT ![r] = file]
    /\ UNCHANGED <<file, earlier, progress>>

PowerFails ==
    /\ file' \in earlier
    /\ progress' = [u \in Updater |-> "away"]
    /\ earlier' = {file'}
    /\ loaded' = [r \in Reader |-> None]

Update(u) == Begin(u) \/ Replace(u) \/ GiveUp(u) \/ Killed(u)

FileNext ==
    \/ \E u \in Updater : Update(u)
    \/ \E r \in Reader : Load(r)
    \/ PowerFails

FileSpec == FileInit /\ [][FileNext]_fileVars
=============================================================================

---------------------------- MODULE VendorUpdater ----------------------------
(***************************************************************************)
(* mac-vendor-updater (run_update in lib.rs, fetch.rs, write.rs, main.rs)  *)
(* on a file system it shares with other updates and with scans that load  *)
(* the registry.  Every system call is a step of its own, so processes     *)
(* interleave between any two of them; a process may be killed and its     *)
(* process id used again; the power may fail, which ends every process,    *)
(* shortens every file that was not synced, and takes the directory of the *)
(* registry, which is never synced, back to a state it had.  Files:        *)
(*   csv[g]       .mac-vendor-updater-csv/<listing of g>, for all updates  *)
(*   dir.temp[u]  .ieee-oui.txt.tmp-<process id>                           *)
(*   dir.dest     ieee-oui.txt                                             *)
(* The directory holds inodes, so that a scan goes on reading the file it  *)
(* opened after its name went to another.                                  *)
(***************************************************************************)
EXTENDS VendorListings

CONSTANTS
    Updater,        \* process ids of updates
    Reader,         \* scans that load the registry
    OldText,        \* the registry text before the first update
    Published,      \* Published[g][n]: the listings of g that run n may be served
    Directories,    \* what a directory named by --from-dir may hold
    Chunk,          \* lines of a text that one read or write call moves
    MaxRuns,        \* bound on the updates that start
    MaxPowerLosses  \* bound on power failures

Listings == (UNION UNION {Range(Published[g]) : g \in Registry}) \cup UNION {Range(d) : d \in Directories}
Rows == UNION {Range(rows) : rows \in Listings}
Cell == [part : {"front", "back"}, row : Rows] \cup {Hole}
Line == [line : {"mapping", "stray", "end"},
         prefix : {Stripped(row.assignment) : row \in Rows} \cup {<<>>},
         vendor : {row.vendor : row \in Rows} \cup {None} \cup (Registry \X Nat)]
Text == Seq(Line \cup Range(OldText))

ASSUME UpdaterAssumption ==
    /\ None \notin Updater \cup Reader \cup Nat \cup Text
    /\ Chunk \in Nat \ {0}
    /\ MaxRuns \in Nat
    /\ MaxPowerLosses \in Nat
    /\ \A g \in Registry : DOMAIN Published[g] = 1 .. MaxRuns
    /\ Directories \subseteq [DOMAIN AllRegistries -> Listings]
    /\ \A rows \in Listings : rows \in Seq(Rows)
    /\ OldText \in Text
    /\ WholeText(OldText)

\* An assignment is a sequence of characters, whatever they are.
ASSUME RowsAssumption == \A row \in Rows : row.assignment \in Seq(Range(row.assignment))

VARIABLES
    stage,       \* stage[u]: where the update of process u is
    serial,      \* serial[u]: the number of that update
    work,        \* work[u]: what that update knows
    csv,         \* csv[g]: the cells of a fetched listing, or None
    content,     \* content[i]: the text of inode i
    synced,      \* synced[i]: whether a power failure leaves it as it is
    dir,         \* inodes of the registry and of the temporary files, or None
    dirOnDisk,   \* what dir may be after a power failure
    load,        \* load[r]: where scan r is, and the inode it has open
    got,         \* got[r]: the text it has read
    runs,        \* updates started so far
    losses,      \* power failures so far
    source       \* history: source[i]: the listings inode i was made from, if
                 \* no other update fetched listings meanwhile, or None

updates == <<stage, serial, work>>
registryFiles == <<content, synced, dir, dirOnDisk>>
scans == <<load, got>>
others == <<losses, source>>
vars == <<updates, csv, registryFiles, scans, runs, others>>

Inode == 0 .. MaxRuns

\* The stages of an update, in the order of the code; "discard" removes the
\* temporary file after an error, and "done" is every return after the rename.
Fetching == {"curl", "curling"}
Collecting == Fetching \cup {"read"}
Working == Collecting \cup {"convert", "open", "write", "rename", "discard"}
Ended == {"away", "done", "failed"}
Stage == Working \cup {"summary"} \cup Ended

NoWork == [offline |-> FALSE, at |-> 1, rows |-> <<>>, sent |-> 0,
           files |-> <<>>, documents |-> <<>>, alone |-> FALSE]

NewText(u) == Converted(work[u].files)
Here(u) == AllRegistries[work[u].at]

\* Process u goes on to `next`, or ends there.
GoesTo(u, next) == stage' = [stage EXCEPT ![u] = next] /\ UNCHANGED serial
EndsAs(u, end) == GoesTo(u, end) /\ work' = [work EXCEPT ![u] = NoWork]

Init ==
    /\ stage = [u \in Updater |-> "away"]
    /\ serial = [u \in Updater |-> 0]
    /\ work = [u \in Updater |-> NoWork]
    /\ csv = [g \in Registry |-> None]
    /\ content = [i \in Inode |-> IF i = 0 THEN OldText ELSE <<>>]
    /\ synced = [i \in Inode |-> i = 0]
    /\ dir \in [dest : {0, None}, temp : {[u \in Updater |-> None]}]
    /\ dirOnDisk = {dir}
    /\ load = [r \in Reader |-> [stage |-> "start", inode |-> None]]
    /\ got = [r \in Reader |-> <<>>]
    /\ runs = 0
    /\ losses = 0
    /\ source = [i \in Inode |-> None]
-----------------------------------------------------------------------------
(* Fetching and converting the listings *)

\* main and run_update begin.  History: of two runs that use the shared directory
\* at the same time neither is alone.
Starts(u, first, task, rivals) ==
    /\ stage[u] \in Ended
    /\ runs < MaxRuns
    /\ stage' = [stage EXCEPT ![u] = first]
    /\ serial' = [serial EXCEPT ![u] = runs + 1]
    /\ work' = [v \in Updater |->
                IF v = u THEN [task EXCEPT !.alone = rivals = {}]
                ELSE IF v \in rivals THEN [work[v] EXCEPT !.alone = FALSE]
                ELSE work[v]]
    /\ runs' = runs + 1
    /\ UNCHANGED <<csv, registryFiles, scans, others>>

StartOnline(u) ==
    Starts(u, "curl", NoWork,
           {v \in Updater \ {u} : stage[v] \in Collecting /\ ~work[v].offline})

\* With --from-dir nothing is fetched.
StartOffline(u, listings) ==
    Starts(u, "read", [NoWork EXCEPT !.offline = TRUE, !.documents = listings], {})

\* The listings curl may be served for the registry it fetches.
Served(u) == IF stage[u] = "curl" THEN Published[Here(u)][serial[u]] ELSE {}

\* Mutant of CurlOpens: a listing that is already there is not fetched again.
CurlReuses(u, rows) ==
    /\ stage[u] = "curl"
    /\ LET kept == csv[Here(u)] # None
       IN  /\ work' = [work EXCEPT ![u].rows = rows,
                                   ![u].sent = IF kept THEN Len(Cells(rows)) ELSE 0]
           /\ csv' = [csv EXCEPT ![Here(u)] = IF kept THEN @ ELSE <<>>]
    /\ GoesTo(u, "curling")
    /\ UNCHANGED <<registryFiles, scans, runs, others>>

\* curl has the first octets of an answer and truncates its output file.
CurlOpens(u, rows) ==
    /\ stage[u] = "curl"
    /\ work' = [work EXCEPT ![u].rows = rows, ![u].sent = 0]
    /\ csv' = [csv EXCEPT ![Here(u)] = <<>>]
    /\ GoesTo(u, "curling")
    /\ UNCHANGED <<registryFiles, scans, runs, others>>

\* A write of `part` after the first `k` places: what another process cut off
\* before it becomes a hole, what is behind it stays.
WrittenAt(file, k, part) ==
    [i \in 1 .. Max({k + Len(part), Len(file)}) |->
        IF i > k /\ i <= k + Len(part) THEN part[i - k]
        ELSE IF i <= Len(file) THEN file[i] ELSE Hole]

CurlWrites(u) ==
    LET k == work[u].sent
    IN  /\ stage[u] = "curling"
        /\ k < Len(Cells(work[u].rows))
        /\ csv' = [csv EXCEPT ![Here(u)] = WrittenAt(@, k, <<Cells(work[u].rows)[k + 1]>>)]
        /\ work' = [work EXCEPT ![u].sent = k + 1]
        /\ UNCHANGED <<stage, serial, registryFiles, scans, runs, others>>

\* Mutant of Looped: the place is not reset for the next loop.
LoopedPastEnd(u, task, again, next) ==
    /\ work' = [work EXCEPT ![u] = [task EXCEPT !.at = @ + 1]]
    /\ GoesTo(u, IF task.at = Len(AllRegistries) THEN next ELSE again)

\* A loop over IeeeMacRegistry::ALL goes `again` to its body for the next registry,
\* or, after the last one, to what is `next`.
Looped(u, task, again, next) ==
    LET last == task.at = Len(AllRegistries)
    IN  /\ work' = [work EXCEPT ![u] = [task EXCEPT !.at = IF last THEN 1 ELSE @ + 1]]
        /\ GoesTo(u, IF last THEN next ELSE again)

\* curl exits with success once it has written all it was sent.
CurlDone(u) ==
    /\ stage[u] = "curling"
    /\ work[u].sent = Len(Cells(work[u].rows))
    /\ Looped(u, [work[u] EXCEPT !.documents = Append(@, work[u].rows), !.rows = <<>>, !.sent = 0],
              "curl", "read")
    /\ UNCHANGED <<csv, registryFiles, scans, runs, others>>

\* The directory cannot be made, curl cannot be run, is refused, or breaks off in
\* the middle: the run ends, and what was written stays.
CurlFails(u) ==
    /\ stage[u] \in Fetching
    /\ EndsAs(u, "failed")
    /\ UNCHANGED <<csv, registryFiles, scans, runs, others>>

\* read_to_string of one listing.
ReadListing(u) ==
    LET file == IF work[u].offline THEN Cells(work[u].documents[work[u].at]) ELSE csv[Here(u)]
    IN  /\ stage[u] = "read"
        /\ file # None
        /\ Looped(u, [work[u] EXCEPT !.files = Append(@, file)], "read", "convert")
        /\ UNCHANGED <<csv, registryFiles, scans, runs, others>>

\* A listing that is not there or cannot be read, and a timestamp that cannot be had.
ReadFails(u) ==
    /\ stage[u] \in {"read", "convert"}
    /\ EndsAs(u, "failed")
    /\ UNCHANGED <<csv, registryFiles, scans, runs, others>>

\* The text has been generated, and the parser of the scan has accepted it.
ConvertListings(u) ==
    /\ stage[u] = "convert"
    /\ Convertible(work[u].files)
    /\ Parses(NewText(u))
    /\ GoesTo(u, "open")
    /\ UNCHANGED <<work, csv, registryFiles, scans, runs, others>>

ConversionRefused(u) ==
    /\ stage[u] = "convert"
    /\ Convertible(work[u].files) => ~Parses(NewText(u))
    /\ EndsAs(u, "failed")
    /\ UNCHANGED <<csv, registryFiles, scans, runs, others>>
-----------------------------------------------------------------------------
(* Replacing the registry: replace_file_atomically *)

\* The directory changes: a power failure may leave it as it was or as it is now.
Renamed(newDir) == dir' = newDir /\ dirOnDisk' = dirOnDisk \cup {newDir}

\* The inode that opening the temporary file yields: that of an earlier process
\* with the same id, or a new one.
TempInode(u) == IF dir.temp[u] = None THEN serial[u] ELSE dir.temp[u]

\* Mutant of OpenTemp: the registry itself is opened and truncated.
OpenRegistry(u) ==
    /\ stage[u] = "open"
    /\ Renamed([dir EXCEPT !.temp = [@ EXCEPT ![u] = IF dir.dest = None THEN serial[u] ELSE dir.dest]])
    /\ content' = [content EXCEPT ![dir'.temp[u]] = <<>>]
    /\ synced' = [synced EXCEPT ![dir'.temp[u]] = FALSE]
    /\ GoesTo(u, "write")
    /\ UNCHANGED <<work, csv, scans, runs, others>>

\* Opened for writing, with O_CREAT and O_TRUNC.
OpenTemp(u) ==
    /\ stage[u] = "open"
    /\ Renamed([dir EXCEPT !.temp = [@ EXCEPT ![u] = TempInode(u)]])
    /\ content' = [content EXCEPT ![TempInode(u)] = <<>>]
    /\ synced' = [synced EXCEPT ![TempInode(u)] = FALSE]
    /\ GoesTo(u, "write")
    /\ UNCHANGED <<work, csv, scans, runs, others>>

\* The next lines of `text` after its first `k` that one call moves.
NextChunk(text, k) == SubSeq(text, k + 1, Min({k + Chunk, Len(text)}))

\* write_all, from the start of the file, as many writes as it takes.
WriteTemp(u) ==
    LET k == work[u].sent
        part == NextChunk(NewText(u), k)
    IN  /\ stage[u] = "write"
        /\ part # <<>>
        /\ content' = [content EXCEPT ![dir.temp[u]] = WrittenAt(@, k, part)]
        /\ work' = [work EXCEPT ![u].sent = k + Len(part)]
        /\ UNCHANGED <<stage, serial, csv, synced, dir, dirOnDisk, scans, runs, others>>

\* Mutant of SyncTemp: the file is not synced.
SyncForgotten(u) ==
    /\ stage[u] = "write"
    /\ work[u].sent = Len(NewText(u))
    /\ GoesTo(u, "rename")
    /\ UNCHANGED <<work, csv, registryFiles, scans, runs, others>>

\* Everything is written: sync_all.
SyncTemp(u) ==
    /\ stage[u] = "write"
    /\ work[u].sent = Len(NewText(u))
    /\ synced' = [synced EXCEPT ![dir.temp[u]] = TRUE]
    /\ GoesTo(u, "rename")
    /\ UNCHANGED <<work, csv, content, dir, dirOnDisk, scans, runs, others>>

\* rename: the temporary file takes the name of the registry.
RenameTemp(u) ==
    /\ stage[u] = "rename"
    /\ Renamed([dest |-> dir.temp[u], temp |-> [dir.temp EXCEPT ![u] = None]])
    /\ source' = [source EXCEPT ![dir.temp[u]] =
                    IF work[u].alone THEN work[u].documents ELSE None]
    /\ EndsAs(u, "summary")
    /\ UNCHANGED <<csv, content, synced, scans, runs, losses>>

\* An error of open, write, sync or rename.
ReplaceFails(u) ==
    /\ stage[u] \in {"open", "write", "rename"}
    /\ GoesTo(u, "discard")
    /\ UNCHANGED <<work, csv, registryFiles, scans, runs, others>>

\* The temporary file is removed, or cannot be; the error is returned either way.
DiscardTemp(u) ==
    /\ stage[u] = "discard"
    /\ \/ Renamed([dir EXCEPT !.temp = [@ EXCEPT ![u] = None]])
       \/ UNCHANGED <<dir, dirOnDisk>>
    /\ EndsAs(u, "failed")
    /\ UNCHANGED <<csv, content, synced, scans, runs, others>>

\* write_summary; when stderr cannot be written to, main returns an error although
\* the registry is replaced.
WriteSummary(u) ==
    /\ stage[u] = "summary"
    /\ EndsAs(u, "done")
    /\ UNCHANGED <<csv, registryFiles, scans, runs, others>>
-----------------------------------------------------------------------------
(* Scans that load the registry, and what may happen to everyone *)

\* load_default_file_if_present finds no file: the scan goes on without names.
LoadFindsNone(r) ==
    /\ load[r].stage = "start"
    /\ dir.dest = None
    /\ load' = [load EXCEPT ![r] = [stage |-> "noRegistry", inode |-> None]]
    /\ UNCHANGED <<updates, csv, registryFiles, got, runs, others>>

\* It finds one and load_from_path opens it: two calls, but a name that is there
\* once does not go away.
LoadOpens(r) ==
    /\ load[r].stage = "start"
    /\ dir.dest # None
    /\ load' = [load EXCEPT ![r] = [stage |-> "reading", inode |-> dir.dest]]
    /\ UNCHANGED <<updates, csv, registryFiles, got, runs, others>>

LoadReads(r) ==
    LET part == NextChunk(content[load[r].inode], Len(got[r]))
    IN  /\ load[r].stage = "reading"
        /\ part # <<>>
        /\ got' = [got EXCEPT ![r] = @ \o part]
        /\ UNCHANGED <<updates, csv, registryFiles, load, runs, others>>

\* The end of the file: the text is parsed, or refused and the scan with it.
LoadEnds(r) ==
    /\ load[r].stage = "reading"
    /\ Len(got[r]) >= Len(content[load[r].inode])
    /\ load' = [load EXCEPT ![r] = [stage |-> IF Parses(got[r]) THEN "loaded" ELSE "refused",
                                    inode |-> @.inode]]
    /\ UNCHANGED <<updates, csv, registryFiles, got, runs, others>>

\* The process is killed, and curl with it.
Crash(u) ==
    /\ stage[u] \notin Ended
    /\ EndsAs(u, "away")
    /\ UNCHANGED <<csv, registryFiles, scans, runs, others>>

\* What is left of a text of which the first n lines are on disk.
Cut(text, n) == SubSeq(text, 1, Min({n, Len(text)}))

\* A listing cut short by a power failure is no other than one of which curl was
\* stopped, so listings are left as they are.
PowerLoss ==
    /\ losses < MaxPowerLosses
    /\ dir' \in dirOnDisk
    /\ dirOnDisk' = {dir'}
    /\ \E n \in {0} \cup UNION {DOMAIN content[i] : i \in {j \in Inode : ~synced[j]}} :
        content' = [i \in Inode |-> IF synced[i] THEN content[i] ELSE Cut(content[i], n)]
    /\ synced' = [i \in Inode |-> TRUE]
    /\ stage' = [u \in Updater |-> "away"]
    /\ work' = [u \in Updater |-> NoWork]
    /\ load' = [r \in Reader |-> [stage |-> "start", inode |-> None]]
    /\ got' = [r \in Reader |-> <<>>]
    /\ losses' = losses + 1
    /\ UNCHANGED <<serial, csv, runs, source>>
-----------------------------------------------------------------------------
UpdateStep(u) ==
    \/ StartOnline(u)
    \/ \E listings \in Directories : StartOffline(u, listings)
    \/ \E rows \in Served(u) : CurlOpens(u, rows)
    \/ CurlWrites(u) \/ CurlDone(u) \/ CurlFails(u)
    \/ ReadListing(u) \/ ReadFails(u)
    \/ ConvertListings(u) \/ ConversionRefused(u)
    \/ OpenTemp(u) \/ WriteTemp(u) \/ SyncTemp(u) \/ RenameTemp(u)
    \/ ReplaceFails(u) \/ DiscardTemp(u) \/ WriteSummary(u)
    \/ Crash(u)

LoadStep(r) == LoadFindsNone(r) \/ LoadOpens(r) \/ LoadReads(r) \/ LoadEnds(r)

Next ==
    \/ \E u \in Updater : UpdateStep(u)
    \/ \E r \in Reader : LoadStep(r)
    \/ PowerLoss

Spec == Init /\ [][Next]_vars
-----------------------------------------------------------------------------
(* Properties *)

Directory == [dest : Inode \cup {None}, temp : [Updater -> Inode \cup {None}]]

LoadStage == {"start", "noRegistry", "reading", "loaded", "refused"}

\* The part of the type invariant that does not look into listings and texts.
FilesTyped ==
    /\ stage \in [Updater -> Stage]
    /\ serial \in [Updater -> 0 .. runs]
    /\ runs \in 0 .. MaxRuns
    /\ content = [i \in Inode |-> content[i]]
    /\ synced \in [Inode -> BOOLEAN]
    /\ dir \in dirOnDisk
    /\ dirOnDisk \subseteq Directory
    /\ load \in [Reader -> [stage : LoadStage, inode : Inode \cup {None}]]

TypeOK ==
    /\ FilesTyped
    /\ \A u \in Updater :
        /\ work[u].at \in DOMAIN AllRegistries
        /\ Len(work[u].files) <= Len(AllRegistries)
        /\ Len(work[u].documents) <= Len(AllRegistries)
    /\ \A g \in Registry : csv[g] # None => csv[g] \in Seq(Cell)

\* A text that the registry has, may have again after a power failure, or that a scan
\* has open, is never written to (write.rs:16: a sibling file is written, then renamed).
Exposed(i) ==
    \/ \E d \in dirOnDisk : d.dest = i
    \/ \E r \in Reader : load[r].stage \in {"reading", "loaded"} /\ load[r].inode = i

ExposedTextsStay == [][\A i \in Inode : Exposed(i) => content'[i] = content[i]]_vars

TextOf(inode) == IF inode = None THEN None ELSE content[inode]

\* The registry file as it is promised: one text at a time, whole, replaced in a
\* step, whatever is killed or loses power, and read as it was at one moment
\* (write.rs:14, "only replaced after the temp file is fully written and synced").
Promised == INSTANCE RegistryFile WITH
    file <- TextOf(dir.dest),
    earlier <- {TextOf(d.dest) : d \in dirOnDisk},
    progress <- [u \in Updater |->
                    IF stage[u] \in Working THEN "running"
                    ELSE IF stage[u] \in {"failed", "away"} THEN stage[u]
                    ELSE "replaced"],
    loaded <- [r \in Reader |->
                    IF load[r].stage = "reading" THEN content[load[r].inode]
                    ELSE IF load[r].stage = "loaded" THEN got[r]
                    ELSE None]

ImplementsRegistryFile == Promised!FileSpec

NamesAsListed(text, listings) ==
    \A address \in [1 .. AddressDigits -> Hex] :
        VendorNameFor(Parsed(text), address) = VendorListed(listings, address)

\* The vendor names an update publishes are those of the listings it was served,
\* whole and by their last rows, although it works on files that earlier updates,
\* killed or broken off, left behind; only updates that fetch at the same time
\* into the one directory are excepted (lib.rs:56).  And the names a scan looks up
\* are those of the file it loaded, by the longest prefix.
WholeListings ==
    /\ dir.dest # None /\ source[dir.dest] # None =>
            NamesAsListed(content[dir.dest], source[dir.dest])
    /\ \A r \in Reader :
        load[r].stage = "loaded" /\ source[load[r].inode] # None =>
            NamesAsListed(got[r], source[load[r].inode])
=============================================================================

----------------------------- MODULE LogFollow ------------------------------
(***************************************************************************)
(* `firestone logs`: the tail of a log read backwards inside a window, and *)
(* the follow that polls the path, reopens it when its inode changes and   *)
(* reads what grew.  Beside it the machine whose log it is.  Cloud         *)
(* Hypervisor opens both its logs with truncation (SPEC.md:2098): the      *)
(* serial console's, which is therefore rotated before a boot and merged   *)
(* with its predecessor after the exit, and the one of --log-file, which   *)
(* spawn has opened for append before and which loses the earlier run.     *)
(* The other logs only grow, as vmm.log does during a run.                 *)
(***************************************************************************)
EXTENDS Naturals, Sequences, FiniteSets, FiniteSetsExt

CONSTANTS
    Inodes,         \* what the filesystem has; a file nobody holds is reused
    MaxBoots, MaxBytes,
    MaxLines,       \* the largest -n asked for
    TailBytes,      \* MAX_LOG_TAIL_BYTES
    ChunkBytes      \* LOG_FOLLOW_CHUNK_BYTES

NoFile == 0

VARIABLES
    data,       \* inode -> its bytes, each with its place in what the machine wrote
    path, previous,     \* console.log (or vmm.log) and console.log.previous
    vm,         \* [source, phase, boots, fd, written]
    reader,     \* [pc, lines, follow, file, offset, end, count, result]
    seg,        \* history: [base, first, bytes, cut], what was emitted since the last (re)open,
                \* and whether the file was truncated under the reader and it did not notice
    cancel      \* "no", "sigint", or "gone" once the event sink is cancelled

machine == <<data, path, previous, vm>>
vars == <<data, path, previous, vm, reader, seg, cancel>>

Contents == {<<>>} \cup UNION {[1..n -> BOOLEAN] : n \in 1..MaxBytes}
Numbered(nls) == [i \in DOMAIN nls |-> [id |-> i, nl |-> nls[i]]]

\* A machine that has run before left a log of any shape, or none.
Init ==
    /\ \E nls \in Contents, p \in {NoFile, Min(Inodes)}, source \in {"console", "vmm"} :
          /\ p = NoFile => nls = <<>>
          /\ path = p
          /\ data = [i \in Inodes |-> IF i = p THEN Numbered(nls) ELSE <<>>]
          /\ vm = [source |-> source, phase |-> "off", boots |-> 0, fd |-> NoFile,
                   written |-> Len(nls)]
    /\ previous = NoFile
    /\ \E l \in 0..MaxLines, f \in BOOLEAN :
          reader = [pc |-> "open", lines |-> l, follow |-> f, file |-> NoFile, offset |-> 0,
                    end |-> 0, count |-> 0, result |-> "none"]
    /\ seg = [base |-> 0, first |-> TRUE, bytes |-> <<>>, cut |-> FALSE]
    /\ cancel = "no"

-----------------------------------------------------------------------------
(* The machine's side.                                                     *)

\* An inode is reused as soon as no name and no open file is left of it.
Fresh == Min(Inodes \ {path, previous, vm.fd, reader.file})

\* rotate_console_log: a console log with bytes is moved aside.
Rename ==
    /\ vm.phase = "off" /\ vm.boots < MaxBoots
    /\ vm' = [vm EXCEPT !.phase = "rotating", !.boots = @ + 1]
    /\ IF vm.source = "console" /\ path # NoFile /\ data[path] # <<>>
       THEN previous' = path /\ path' = NoFile
       ELSE UNCHANGED <<previous, path>>
    /\ UNCHANGED <<data, reader, seg, cancel>>

\* The open for append that creates the log where there is none: the rotation's, or that of
\* the VMM's stdout and stderr.
CreateLog ==
    /\ vm.phase = "rotating"
    /\ vm' = [vm EXCEPT !.phase = "launching"]
    /\ IF path # NoFile THEN UNCHANGED <<path, data>>
       ELSE path' = Fresh /\ data' = [data EXCEPT ![Fresh] = <<>>]
    /\ UNCHANGED <<previous, reader, seg, cancel>>

\* Cloud Hypervisor's File::create: a console log is empty by then, a VMM log need not be.
Truncate ==
    /\ vm.phase = "launching"
    /\ vm' = [vm EXCEPT !.phase = "up", !.fd = path]
    /\ data' = [data EXCEPT ![path] = <<>>]
    /\ seg' = [seg EXCEPT !.cut = @ \/ (reader.file = path /\ reader.end > 0)]
    /\ UNCHANGED <<path, previous, reader, cancel>>

Write ==
    /\ vm.phase = "up" /\ vm.written < MaxBytes
    /\ \E nl \in BOOLEAN :
          data' = [data EXCEPT ![vm.fd] = Append(@, [id |-> vm.written + 1, nl |-> nl])]
    /\ vm' = [vm EXCEPT !.written = @ + 1]
    /\ UNCHANGED <<path, previous, reader, seg, cancel>>

Exit ==
    /\ vm.phase = "up"
    /\ vm' = [vm EXCEPT !.phase = "exited", !.fd = NoFile]
    /\ UNCHANGED <<data, path, previous, reader, seg, cancel>>

\* merge_console_log: the write that replaces the log by both.
Merge ==
    /\ vm.phase = "exited"
    /\ vm' = [vm EXCEPT !.phase = "merged"]
    /\ IF previous = NoFile THEN UNCHANGED <<data, path>>
       ELSE path' = Fresh /\ data' = [data EXCEPT ![Fresh] = data[previous] \o data[path]]
    /\ UNCHANGED <<previous, reader, seg, cancel>>

\* merge_console_log: the predecessor is removed.
RemovePrevious ==
    /\ vm.phase = "merged"
    /\ vm' = [vm EXCEPT !.phase = "off"]
    /\ previous' = NoFile
    /\ UNCHANGED <<data, path, reader, seg, cancel>>

\* SIGINT, or the client of the stream is gone.
Cancel ==
    /\ cancel = "no" /\ reader.result = "none" /\ reader.follow
    /\ cancel' \in {"sigint", "gone"}
    /\ UNCHANGED <<machine, reader, seg>>

-----------------------------------------------------------------------------
(* The tail.                                                               *)

LineCount(bytes) ==
    Cardinality({i \in DOMAIN bytes : bytes[i].nl})
        + (IF bytes # <<>> /\ ~bytes[Len(bytes)].nl THEN 1 ELSE 0)

\* The line ends of the scanned window that have a line after them.
Separators(bytes) ==
    {i \in DOMAIN bytes : bytes[i].nl /\ i # Len(bytes)}

\* The scan from the end: where the last `lines` lines begin, 0 if it ran out.
TailStart(bytes, lines) ==
    LET seps == Separators(bytes)
    IN  IF Cardinality(seps) < lines THEN 0
        ELSE CHOOSE p \in seps : Cardinality({q \in seps : q >= p}) = lines

Done(r) == reader' = [reader EXCEPT !.pc = "done", !.result = r]
Cancelled == Done(IF cancel = "gone" THEN "returned" ELSE "interrupted")

\* After the tail: the terminal result, or the loop of the follow.
Tailed(n, end) ==
    reader' = [reader EXCEPT !.count = n, !.offset = end, !.end = end,
                             !.pc = IF reader.follow THEN "check" ELSE "done",
                             !.result = IF reader.follow THEN "none" ELSE "result"]

\* open_owned_data_file_if_present, until there is a log or no reason to wait.
OpenLog ==
    /\ reader.pc = "open"
    /\ IF path # NoFile THEN reader' = [reader EXCEPT !.pc = "tailstat", !.file = path]
       ELSE IF ~reader.follow THEN Done("result")
       ELSE cancel # "no" /\ Cancelled
    /\ UNCHANGED <<machine, seg, cancel>>

\* tail_log: the length.
TailStat ==
    /\ reader.pc = "tailstat"
    /\ LET end == Len(data[reader.file]) IN
          IF reader.lines = 0 \/ end = 0
          THEN Tailed(0, end) /\ seg' = [seg EXCEPT !.base = end]
          ELSE reader' = [reader EXCEPT !.pc = "tailread", !.end = end] /\ UNCHANGED seg
    /\ UNCHANGED <<machine, cancel>>

\* tail_log: the window, the scan and the refusal.
TailRead ==
    /\ reader.pc = "tailread"
    /\ LET file == data[reader.file]
           window == IF reader.end > TailBytes THEN reader.end - TailBytes ELSE 0
           bytes == SubSeq(file, window + 1, Min({reader.end, Len(file)}))
           start == TailStart(bytes, reader.lines)
           selected == SubSeq(bytes, start + 1, Len(bytes))
       IN  IF Cardinality(Separators(bytes)) < reader.lines /\ window # 0
           THEN Done("refused") /\ UNCHANGED seg
           ELSE /\ Tailed(LineCount(selected), reader.end)
                /\ seg' = [seg EXCEPT !.base = window + start, !.bytes = selected]
    /\ UNCHANGED <<machine, cancel>>

-----------------------------------------------------------------------------
(* The follow.                                                             *)

\* The loop's two cancellations, then what the path names now.
Check ==
    /\ reader.pc = "check"
    /\ IF cancel # "no" THEN Cancelled
       ELSE /\ path # NoFile
            /\ reader' = [reader EXCEPT !.pc = IF path = reader.file THEN "stat" ELSE "reopen"]
    /\ UNCHANGED <<machine, seg, cancel>>

\* What is emitted from now on begins at the file's start.
Afresh == [base |-> 0, first |-> FALSE, bytes |-> <<>>, cut |-> FALSE]

\* open_owned_data_file of the path whose inode was another.
Reopen ==
    /\ reader.pc = "reopen"
    /\ IF path = NoFile THEN Done("not_found") /\ UNCHANGED seg
       ELSE /\ reader' = [reader EXCEPT !.pc = "stat", !.file = path, !.offset = 0]
            /\ seg' = Afresh
    /\ UNCHANGED <<machine, cancel>>

\* Mutant: a file shorter than the offset is waited for.
StatWaits ==
    /\ reader.pc = "stat"
    /\ LET length == Len(data[reader.file])
       IN  /\ reader' = [reader EXCEPT !.end = length,
                                       !.pc = IF length > reader.offset THEN "read" ELSE "check"]
           /\ seg' = IF length < reader.offset THEN Afresh ELSE seg
    /\ UNCHANGED <<machine, cancel>>

\* The length of the open file: shorter than the offset means it was truncated.
Stat ==
    /\ reader.pc = "stat"
    /\ LET length == Len(data[reader.file])
           cut == length < reader.offset
           offset == IF cut THEN 0 ELSE reader.offset
       IN  /\ reader' = [reader EXCEPT !.offset = offset, !.end = length,
                                       !.pc = IF length > offset THEN "read" ELSE "check"]
           /\ seg' = IF cut THEN Afresh ELSE seg
    /\ UNCHANGED <<machine, cancel>>

\* One Output event of at most a chunk.
Read ==
    /\ reader.pc = "read"
    /\ LET file == data[reader.file]
           upto == Min({reader.end, reader.offset + ChunkBytes, Len(file)})
           chunk == SubSeq(file, reader.offset + 1, upto)
       IN  /\ reader' = [reader EXCEPT !.pc = "check", !.offset = @ + Len(chunk)]
           /\ seg' = [seg EXCEPT !.bytes = @ \o chunk]
    /\ UNCHANGED <<machine, cancel>>

Shim == Rename \/ CreateLog \/ Truncate \/ Merge \/ RemovePrevious
Reader == OpenLog \/ TailStat \/ TailRead \/ Check \/ Reopen \/ Stat \/ Read
Next == Shim \/ Write \/ Exit \/ Cancel \/ Reader

Spec == Init /\ [][Next]_vars

-----------------------------------------------------------------------------
\* The log and its previous generation are files within the bound; a tail never counts more
\* lines than were asked for (tail_log).
TypeOK ==
    /\ path \in Inodes \cup {NoFile} /\ previous \in Inodes \cup {NoFile}
    /\ \A i \in Inodes : Len(data[i]) <= MaxBytes
    /\ reader.file \in Inodes \cup {NoFile} /\ reader.count \in 0..reader.lines
    /\ reader.result \in {"none", "result", "refused", "returned", "interrupted", "not_found"}

\* What a follow printed since it opened the file, or noticed that it was truncated, has no
\* byte twice, out of order or from another file, and is the file from the place the tail, or
\* the new start, began to its offset: nothing is skipped, across rotation, merging, inode
\* reuse and truncation.  Only a log that grew past the offset again before the next Stat
\* hides its truncation; then what was written below the offset is never printed.
SegmentIsContiguous ==
    reader.file # NoFile =>
        /\ \A i, j \in DOMAIN seg.bytes : i < j => seg.bytes[i].id < seg.bytes[j].id
        /\ ~seg.cut /\ reader.offset <= Len(data[reader.file]) =>
               seg.bytes = SubSeq(data[reader.file], seg.base + 1, reader.offset)

\* The tail of `-n` is the last lines of the log as it was when its length was taken, if it
\* was not truncated after that: it starts at a line's start, its reported count is its
\* lines, and it is shorter than asked only if the log is.
TailIsLast ==
    seg.first /\ ~seg.cut /\ reader.file # NoFile
            /\ reader.pc \in {"check", "done"} /\ reader.result \in {"none", "result"} =>
        LET selected == SubSeq(data[reader.file], seg.base + 1,
                               IF reader.follow THEN seg.base + Len(seg.bytes) ELSE reader.end)
        IN  /\ reader.lines > 0 /\ seg.base > 0 =>
                  /\ reader.count = reader.lines
                  /\ data[reader.file][seg.base].nl
            /\ ~reader.follow => LineCount(selected) = reader.count

\* The follow was cancelled and is not over; it is over, or has printed the log to its
\* end, from the file the path names.
Cancelling == cancel # "no" /\ reader.pc # "done"
CaughtUp == reader.pc = "done" \/ path = NoFile \/ (reader.file = path /\ reader.offset = Len(data[path]))

=============================================================================

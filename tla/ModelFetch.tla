----------------------------- MODULE ModelFetch -----------------------------
(***************************************************************************)
(* `klava-compress --fetch-model`, which the setup hook of the extension   *)
(* runs and a user may run by hand: the graph and the tokenizer are        *)
(* downloaded one behind the other into .part files that a later run       *)
(* resumes, and renamed into place.  Nothing keeps two runs apart (the     *)
(* lock of SetupLock can be taken over while its holder still runs), and a *)
(* run may die at any step.  The server is external: it may refuse, honour *)
(* or ignore a range, end a body early, and publish another version; it    *)
(* says how long a body is (content-length).                               *)
(***************************************************************************)
EXTENDS Naturals, Sequences

CONSTANTS
  Runners,   (* processes that fetch                                        *)
  Blocks,    (* blocks of a remote file                                     *)
  MaxRuns    (* bound: runs of --fetch-model                                *)

ASSUME FetchAssumption == Blocks \in Nat

VARIABLES
  remote,   (* the version the server has                                   *)
  part,     (* the .part file of either file; an empty one counts as none   *)
  dest,     (* the file in its place                                        *)
  run,      (* the runs in progress                                         *)
  runs,     (* runs begun                                                   *)
  torn,     (* history: files whose .part was begun before the last version *)
  overlapped  (* history: files two runs were downloading at once           *)

fetchVars == <<remote, part, dest, run, runs, torn, overlapped>>

(* MODEL_FILES                                                             *)
Files == 1 .. 2

Content(version) == [i \in 1 .. Blocks |-> [version |-> version, block |-> i]]

(* What is between the end of a file and a write behind it.                *)
Hole == [version |-> 0, block |-> 0]

RunAt(step, f) ==
  [step |-> step, file |-> f, offset |-> 0, body |-> << >>, expected |-> 0, written |-> 0,
   into |-> "none"]
Over == RunAt("over", 1)

FetchInit ==
  /\ remote = 1
  /\ part = [f \in Files |-> << >>]
  /\ dest = [f \in Files |-> << >>]
  /\ run = [p \in Runners |-> Over] /\ runs = 0
  /\ torn = {} /\ overlapped = {}

-----------------------------------------------------------------------------
FetchModel(p) ==
  /\ run[p].step = "over" /\ runs < MaxRuns
  /\ run' = [run EXCEPT ![p] = RunAt("look", 1)]
  /\ runs' = runs + 1
  /\ UNCHANGED <<remote, part, dest, torn, overlapped>>

NextFile(f) == IF f = 2 THEN Over ELSE RunAt("look", 2)

(* A finished file is never downloaded again.                              *)
Have(p) ==
  /\ run[p].step = "look" /\ dest[run[p].file] # << >>
  /\ run' = [run EXCEPT ![p] = NextFile(run[p].file)]
  /\ UNCHANGED <<remote, part, dest, runs, torn, overlapped>>

(* Runs that are downloading f.                                            *)
Fetching(f) == {p \in Runners : run[p].file = f /\ run[p].step \in {"ask", "read", "rename"}}

(* What is missing is asked for, behind what its .part has.                *)
AsksFor(p) ==
  LET f == run[p].file
  IN  /\ run[p].step = "look" /\ dest[f] = << >>
      /\ run' = [run EXCEPT ![p] = [RunAt("ask", f) EXCEPT !.offset = Len(part[f])]]
      /\ overlapped' = IF Fetching(f) = {} THEN overlapped ELSE overlapped \cup {f}
      /\ UNCHANGED <<remote, part, dest, runs, torn>>

(* No connection, or a status that is no success.  (What a failed read     *)
(* leaves is what FetchDies leaves.)                                       *)
Refused(p) ==
  /\ run[p].step = "ask"
  /\ run' = [run EXCEPT ![p] = Over]
  /\ UNCHANGED <<remote, part, dest, runs, torn, overlapped>>

(* An open file stays with who opened it, wherever it is moved.            *)
Followed(f, moved) ==
  [q \in Runners |-> IF run[q].file = f /\ run[q].into \in DOMAIN moved
                     THEN [run[q] EXCEPT !.into = moved[run[q].into]] ELSE run[q]]

(* 416: there is nothing behind the offset.  The .part is dropped.         *)
RangeRejected(p) ==
  LET f == run[p].file
  IN  /\ run[p].step = "ask" /\ run[p].offset > 0 /\ run[p].offset >= Blocks
      /\ part' = [part EXCEPT ![f] = << >>]
      /\ run' = [Followed(f, [part |-> "gone"]) EXCEPT ![p] = Over]
      /\ UNCHANGED <<remote, dest, runs, torn, overlapped>>

(* Mutant of PartMode: the .part is always appended to.                    *)
AlwaysAppends(offset) == "append"

(* part_mode: truncated when the download starts over.                     *)
PartMode(offset) == IF offset = 0 THEN "truncate" ELSE "append"

PartOpened(old, offset) == IF PartMode(offset) = "truncate" THEN << >> ELSE old

(* The answer is the rest behind the offset (206), or, without a range or  *)
(* with one that is ignored, the whole file; expected_total counts from    *)
(* the offset that is left.                                                *)
Answered(p) ==
  LET f == run[p].file
  IN  /\ run[p].step = "ask"
      /\ \E offset \in {0, run[p].offset} :
           /\ offset < Blocks
           /\ part' = [part EXCEPT ![f] = PartOpened(@, offset)]
           /\ run' = [run EXCEPT ![p] =
                [step |-> "read", file |-> f, offset |-> offset, written |-> offset,
                 body |-> SubSeq(Content(remote), offset + 1, Blocks),
                 expected |-> Blocks, into |-> "part"]]
      /\ UNCHANGED <<remote, dest, runs, torn, overlapped>>

(* A file that was opened to resume is appended to; one that was opened to *)
(* start over is written where its writer is.                              *)
Put(blocks, r) ==
  IF PartMode(r.offset) = "append" THEN Append(blocks, Head(r.body))
  ELSE [i \in 1 .. (IF r.written < Len(blocks) THEN Len(blocks) ELSE r.written + 1) |->
          IF i = r.written + 1 THEN Head(r.body)
          ELSE IF i <= Len(blocks) THEN blocks[i] ELSE Hole]

ReadBlock(p) ==
  LET f == run[p].file
  IN  /\ run[p].step = "read" /\ run[p].body # << >>
      /\ part' = IF run[p].into = "part" THEN [part EXCEPT ![f] = Put(@, run[p])] ELSE part
      /\ dest' = IF run[p].into = "dest" THEN [dest EXCEPT ![f] = Put(@, run[p])] ELSE dest
      /\ run' = [run EXCEPT ![p] = [run[p] EXCEPT !.body = Tail(@), !.written = @ + 1]]
      /\ UNCHANGED <<remote, runs, torn, overlapped>>

(* The body ends, early or not: an incomplete .part is kept.               *)
BodyEnds(p) ==
  /\ run[p].step = "read"
  /\ run' = [run EXCEPT ![p] = IF run[p].written # run[p].expected THEN Over
                               ELSE [run[p] EXCEPT !.step = "rename"]]
  /\ UNCHANGED <<remote, part, dest, runs, torn, overlapped>>

(* Whatever the .part now is takes the place of the file.                  *)
Rename(p) ==
  LET f == run[p].file
  IN  /\ run[p].step = "rename"
      /\ dest' = [dest EXCEPT ![f] = part[f]]
      /\ part' = [part EXCEPT ![f] = << >>]
      /\ run' = [Followed(f, [part |-> "dest", dest |-> "gone"]) EXCEPT ![p] = NextFile(f)]
      /\ UNCHANGED <<remote, runs, torn, overlapped>>

(* A run is killed; or, what leaves the same, one of its calls fails (the  *)
(* rename of a .part that another run has moved away).                     *)
FetchDies(p) ==
  /\ run[p].step # "over"
  /\ run' = [run EXCEPT ![p] = Over]
  /\ UNCHANGED <<remote, part, dest, runs, torn, overlapped>>

RemotePublishes ==
  /\ remote = 1
  /\ remote' = 2
  /\ torn' = {f \in Files : part[f] # << >>
                              \/ \E p \in Runners : run[p].step = "read" /\ run[p].file = f}
  /\ UNCHANGED <<part, dest, run, runs, overlapped>>

FetchNext ==
  \/ \E p \in Runners :
       \/ FetchModel(p) \/ Have(p) \/ AsksFor(p) \/ Refused(p) \/ RangeRejected(p)
       \/ Answered(p) \/ ReadBlock(p) \/ BodyEnds(p) \/ Rename(p) \/ FetchDies(p)
  \/ RemotePublishes

FetchSpec == FetchInit /\ [][FetchNext]_fetchVars

-----------------------------------------------------------------------------
(* A file in its place is byte for byte what the server had, however often *)
(* its download was cut off, resumed, answered with the whole file or      *)
(* refused: "a short body becomes a silently broken ONNX file", and a      *)
(* fresh body behind a stale prefix one of the right length.  There are    *)
(* two exceptions: a download that was resumed across a new version, whose *)
(* halves nothing tells apart, and one that two runs worked on at once.    *)
ModelWhole ==
  \A f \in Files \ (torn \cup overlapped) :
    dest[f] # << >> => \E v \in 1 .. remote : dest[f] = Content(v)
=============================================================================

------------------------------- MODULE Deploy -------------------------------
(***************************************************************************)
(* deploy_contract and upsert_env_var of clients/cli/src/main.rs: several  *)
(* runs of `star-escrow deploy`, at the same time or one after another,    *)
(* that put the id of the contract they deployed into one .env file.       *)
(*                                                                         *)
(* The file is its lines and whether the last one ends in a newline.  A    *)
(* line is a value of ESCROW_CONTRACT_ID or something else.  Nothing locks *)
(* the file: reading it, truncating it and writing it are three steps.     *)
(***************************************************************************)
EXTENDS Naturals, Sequences, Lists

CONSTANTS
    Runs,      \* runs of the command; a run stands for the id it is given
    OldIds,    \* ids the file may hold from earlier
    Others,    \* other non-blank lines
    None,      \* no file, no run
    Files      \* .env files to begin with

Key(id) == <<"ESCROW_CONTRACT_ID", id>>
Blank   == <<"blank">>
Torn    == <<"torn">>       \* a piece of a line
Keys    == {Key(id) : id \in Runs \union OldIds \union {"cut"}}
Other   == {<<"other", o>> : o \in Others}
Line    == Keys \union Other \union {Blank, Torn}
Text    == [lines : Seq(Line), ended : BOOLEAN]
Empty   == [lines |-> << >>, ended |-> FALSE]

Stage == {"start", "deployed", "read", "truncated", "written", "done",
          "undeployed", "failed", "crashed"}

ASSUME DeployAssumption ==
    /\ Files \subseteq Text \union {None} /\ None \notin Text
    /\ None \notin Runs /\ Runs \intersect OldIds = {} /\ "cut" \notin Runs \union OldIds

VARIABLES
    pc,        \* how far each run is
    file,      \* the .env file, or None
    content,   \* the text each run is about to write, with the grade it will have
    chain,     \* the contracts that exist on the network
    printed,   \* the ids that were shown to the user
    start,     \* history: the file at the beginning
    last,      \* history: the last run to finish writing, or None
    owner,     \* history: the run that alone is between truncating and writing
    grade      \* history: "torn"  if file is not the whole text of one run,
               \*          "lossy" if that run had read a torn or lossy file,
               \*          "kept"  otherwise

vars == <<pc, file, content, chain, printed, start, last, owner, grade>>

-----------------------------------------------------------------------------
(* upsert_env_var's text processing *)

existing == IF file = None THEN Empty ELSE file

\* Mutant: only the first line with the key is replaced.
ReplaceFirst(lines, id) ==
    [i \in DOMAIN lines |->
        IF lines[i] \in Keys /\ \A j \in 1..(i - 1) : lines[j] \notin Keys
        THEN Key(id) ELSE lines[i]]

\* Every line with the key is replaced.
Replace(lines, id) ==
    [i \in DOMAIN lines |-> IF lines[i] \in Keys THEN Key(id) ELSE lines[i]]

Found(lines) == \E i \in DOMAIN lines : lines[i] \in Keys

\* Mutant: a file without the key is overwritten by the new line.
UpsertAlone(text, id) ==
    [lines |-> IF Found(text.lines) THEN Replace(text.lines, id) ELSE <<Key(id)>>,
     ended |-> TRUE]

\* join drops the last newline, so a blank last line turns into the newline
\* that would have been added.  format! puts a newline before the new line
\* even if the text is empty or ends in one, which leaves a blank line.
Upsert(text, id) ==
    LET lines == Replace(text.lines, id)
        body  == IF lines[Len(lines)] = Blank THEN SubSeq(lines, 1, Len(lines) - 1) ELSE lines
        gap   == IF text.ended \/ text.lines = << >> THEN <<Blank>> ELSE << >>
    IN  [lines |-> IF Found(text.lines) THEN body ELSE text.lines \o gap \o <<Key(id)>>,
         ended |-> TRUE]

-----------------------------------------------------------------------------
(* The file system.  Line lengths are left open. *)

\* The beginnings of a text that write_all may have written when it stops; a
\* key line that is cut short still starts with the key.
Beginnings(lines) ==
    {<< >>} \union
    UNION {{SubSeq(lines, 1, i), SubSeq(lines, 1, i - 1) \o <<Torn>>} \union
           (IF lines[i] \in Keys THEN {SubSeq(lines, 1, i - 1) \o <<Key("cut")>>} ELSE {})
           : i \in DOMAIN lines}

\* Writing to the start of a file: if old is longer its end stays.
Overlay(new, old) ==
    {new} \union
    UNION {{new \o SubSeq(old, i, Len(old)), new \o <<Torn>> \o SubSeq(old, i + 1, Len(old))}
           : i \in DOMAIN old}

-----------------------------------------------------------------------------
Init ==
    /\ pc = [r \in Runs |-> "start"]
    /\ file \in Files
    /\ content = [r \in Runs |-> [text |-> Empty, grade |-> "kept"]]
    /\ chain = {} /\ printed = {}
    /\ start = existing
    /\ last = None /\ owner = None
    /\ grade = "kept"

Goto(r, from, to) == pc[r] = from /\ pc' = [pc EXCEPT ![r] = to]

\* `stellar contract deploy` succeeds and prints an id.
deploy(r) ==
    /\ Goto(r, "start", "deployed")
    /\ chain' = chain \union {r}
    /\ UNCHANGED <<file, content, printed, start, last, owner, grade>>

\* The build fails, the WASM file is missing, or `stellar contract deploy` fails
\* or prints no id; in the last two cases the contract may exist all the same.
deploy_fails(r) ==
    /\ Goto(r, "start", "undeployed")
    /\ chain' \in {chain, chain \union {r}}
    /\ UNCHANGED <<file, content, printed, start, last, owner, grade>>

\* upsert_env_var reads the file, if there is one, and computes the new text.
read_to_string(r) ==
    /\ Goto(r, "deployed", "read")
    /\ content' = [content EXCEPT ![r] =
                      [text |-> Upsert(existing, r),
                       grade |-> IF grade = "kept" THEN "kept" ELSE "lossy"]]
    /\ UNCHANGED <<file, chain, printed, start, last, owner, grade>>

\* File::create truncates the file before anything is written.
create(r) ==
    /\ Goto(r, "read", "truncated")
    /\ file' = Empty
    /\ owner' = IF \E q \in Runs : pc[q] = "truncated" THEN None ELSE r
    /\ grade' = "torn"
    /\ UNCHANGED <<content, chain, printed, start, last>>

\* The ? on read_to_string or File::create ends the run.
io_error(r) ==
    /\ (file # None /\ Goto(r, "deployed", "failed")) \/ Goto(r, "read", "failed")
    /\ UNCHANGED <<file, content, chain, printed, start, last, owner, grade>>

write_all(r) ==
    /\ Goto(r, "truncated", "written")
    /\ \E lines \in Overlay(content[r].text.lines, existing.lines) :
          file' = [lines |-> lines, ended |-> TRUE]
    /\ last' = r
    /\ grade' = IF owner = r THEN content[r].grade ELSE "torn"
    /\ UNCHANGED <<content, chain, printed, start, owner>>

\* write_all stops in the middle: an error such as a full disk, or a crash.
write_stops(r) ==
    /\ Goto(r, "truncated", "failed") \/ Goto(r, "truncated", "crashed")
    /\ \E new \in Beginnings(content[r].text.lines), ended \in BOOLEAN :
          \E lines \in Overlay(new, existing.lines) :
             file' = [lines |-> lines, ended |-> ended /\ lines # << >>]
    /\ UNCHANGED <<content, chain, printed, start, last, owner, grade>>

\* The id is shown only now.
output(r) ==
    /\ Goto(r, "written", "done")
    /\ printed' = printed \union {r}
    /\ UNCHANGED <<file, content, chain, start, last, owner, grade>>

\* The process is killed between two steps.
Crash(r) ==
    /\ \E from \in {"start", "deployed", "read", "written"} : Goto(r, from, "crashed")
    /\ UNCHANGED <<file, content, chain, printed, start, last, owner, grade>>

Next == \E r \in Runs :
    \/ deploy(r) \/ deploy_fails(r) \/ read_to_string(r) \/ io_error(r)
    \/ create(r) \/ write_all(r) \/ write_stops(r) \/ output(r) \/ Crash(r)

Spec == Init /\ [][Next]_vars

-----------------------------------------------------------------------------
(* Properties *)

(***************************************************************************)
(* Once a run has written the file without another one truncating it at    *)
(* the same time, ESCROW_CONTRACT_ID has exactly one value, the id of that *)
(* run, however torn, duplicated or stale the lines it read were.          *)
(***************************************************************************)
LastIdStands ==
    grade # "torn" /\ last # None =>
        /\ Found(file.lines)
        /\ \A i \in DOMAIN file.lines : file.lines[i] \in Keys => file.lines[i] = Key(last)

(***************************************************************************)
(* Deployments keep the other lines of the file in their order and do not  *)
(* let it grow, however their reads and writes interleave and whichever    *)
(* steps fail, unless one of them reads the file, or stops, between        *)
(* another's or its own truncation and write.                              *)
(***************************************************************************)
OthersKept ==
    grade = "kept" =>
        /\ Only(existing.lines, Other \union {Torn}) = Only(start.lines, Other \union {Torn})
        /\ Len(existing.lines) <= Len(start.lines) + 2

\* deploy_contract prints the contract id and optionally persists it (main.rs
\* 263).  Checked by a run that expects the violation.
DeployedIdReported == \A r \in Runs : r \in chain /\ pc[r] = "failed" => r \in printed

=============================================================================

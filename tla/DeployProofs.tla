---------------------------- MODULE DeployProofs ----------------------------
(***************************************************************************)
(* Theorems about Deploy: what any number of deployments, interleaved,     *)
(* failing and crashing at any step, leave in one .env file.               *)
(***************************************************************************)
EXTENDS Deploy, HelperTheorems

DeployTypeOK ==
    /\ pc \in [Runs -> Stage]
    /\ file \in Text \union {None}
    /\ content \in [Runs -> [text : Text, grade : {"kept", "lossy"}]]
    /\ start \in Text
    /\ last \in Runs \union {None} /\ owner \in Runs \union {None}
    /\ grade \in {"torn", "lossy", "kept"}

\* The lines that deployments must keep, and a piece of one.
Kept == Other \union {Torn}

\* What a finished deployment has done to the lines of the first file.
KeepsStart(lines) ==
    /\ Found(lines)
    /\ Only(lines, Kept) = Only(start.lines, Kept)
    /\ Len(lines) <= Len(start.lines) + 2

\* The file holds one value of the key, that of run r.
OneId(lines, r) ==
    /\ Found(lines)
    /\ \A i \in DOMAIN lines : lines[i] \in Keys => lines[i] = Key(r)

\* While a run is between truncating and writing the file counts as torn; if
\* that run is alone there, the file is still empty.
TruncatedAlone ==
    \A r \in Runs : pc[r] = "truncated" =>
        /\ grade = "torn"
        /\ owner = r => file = Empty /\ \A q \in Runs : pc[q] = "truncated" => q = r

\* A run is about to write its own id, and the start's other lines if it read them.
ContentReady ==
    \A r \in Runs : pc[r] \in {"read", "truncated"} =>
        /\ OneId(content[r].text.lines, r)
        /\ content[r].grade = "kept" => KeepsStart(content[r].text.lines)

\* The file is the first one or the work of a deployment.
FileKept == grade = "kept" => existing.lines = start.lines \/ KeepsStart(existing.lines)

\* LastIdStands, for a file that is known to exist.
LastWritten == grade # "torn" /\ last # None => file # None /\ OneId(file.lines, last)

DeployInv ==
    /\ DeployTypeOK
    /\ TruncatedAlone
    /\ ContentReady
    /\ FileKept
    /\ LastWritten

-----------------------------------------------------------------------------
(* Lines *)

(***************************************************************************)
(* The kinds of line are different from each other.                        *)
(***************************************************************************)
LEMMA LineKinds ==
    /\ Blank \in Line /\ Torn \in Line /\ Keys \subseteq Line /\ Kept \subseteq Line
    /\ Blank \notin Keys /\ Blank \notin Kept
    /\ \A line \in Keys : line \notin Kept
    /\ \A r \in Runs : Key(r) \in Keys
    /\ Key("cut") \in Keys
<1>1. Blank \notin Keys /\ Torn \notin Keys
    BY DEF Blank, Torn, Keys, Key
<1>2. Blank \notin Other /\ Blank # Torn
    BY DEF Blank, Torn, Other
<1>3. \A line \in Keys : line \notin Other
    BY DEF Keys, Key, Other
<1>4. (\A r \in Runs : Key(r) \in Keys) /\ Key("cut") \in Keys
    BY DEF Keys
<1>5. Blank \in Line /\ Torn \in Line /\ Keys \subseteq Line /\ Kept \subseteq Line
    BY DEF Line, Kept
<1> QED
    BY <1>1, <1>2, <1>3, <1>4, <1>5 DEF Kept

(***************************************************************************)
(* Sequences of lines: concatenations, pieces and their entries.           *)
(***************************************************************************)
LEMMA Pieces ==
    ASSUME NEW lines \in Seq(Line)
    PROVE  /\ Len(lines) \in Nat /\ DOMAIN lines = 1..Len(lines)
           /\ \A i \in 1..Len(lines) : lines[i] \in Line
           /\ \A i \in 0..Len(lines) : SubSeq(lines, 1, i) \in Seq(Line)
           /\ \A i \in 1..(Len(lines) + 1) : SubSeq(lines, i, Len(lines)) \in Seq(Line)
           /\ \A line \in Line : <<line>> \in Seq(Line)
<1>1. Len(lines) \in Nat /\ DOMAIN lines = 1..Len(lines) /\ \A i \in 1..Len(lines) : lines[i] \in Line
    OBVIOUS
<1>2. ASSUME NEW i \in 0..Len(lines) PROVE SubSeq(lines, 1, i) \in Seq(Line)
    BY <1>1
<1>3. ASSUME NEW i \in 1..(Len(lines) + 1) PROVE SubSeq(lines, i, Len(lines)) \in Seq(Line)
    BY <1>1
<1>4. \A line \in Line : <<line>> \in Seq(Line)
    OBVIOUS
<1> QED
    BY <1>1, <1>2, <1>3, <1>4

LEMMA Joined ==
    ASSUME NEW a \in Seq(Line), NEW b \in Seq(Line)
    PROVE  a \o b \in Seq(Line)
    OBVIOUS

(***************************************************************************)
(* What is left of a text when a write stops, and of a longer old text     *)
(* behind a new one, are again lines.                                      *)
(***************************************************************************)
LEMMA BeginningsTyped ==
    ASSUME NEW lines \in Seq(Line), NEW new \in Beginnings(lines)
    PROVE  new \in Seq(Line)
<1>1. CASE new = << >>
    BY <1>1
<1>2. CASE \E i \in DOMAIN lines : new \in {SubSeq(lines, 1, i), SubSeq(lines, 1, i - 1) \o <<Torn>>,
                                           SubSeq(lines, 1, i - 1) \o <<Key("cut")>>}
  <2>1. PICK i \in 1..Len(lines) : new \in {SubSeq(lines, 1, i), SubSeq(lines, 1, i - 1) \o <<Torn>>,
                                            SubSeq(lines, 1, i - 1) \o <<Key("cut")>>}
      BY <1>2, Pieces
  <2>2. i \in 0..Len(lines) /\ i - 1 \in 0..Len(lines)
      BY Pieces
  <2>3. SubSeq(lines, 1, i) \in Seq(Line) /\ SubSeq(lines, 1, i - 1) \in Seq(Line)
      BY <2>2, Pieces
  <2>4. <<Torn>> \in Seq(Line) /\ <<Key("cut")>> \in Seq(Line)
      BY LineKinds
  <2> HIDE DEF Torn, Key
  <2> QED BY <2>1, <2>3, <2>4, Joined
<1> QED
    BY <1>1, <1>2 DEF Beginnings

LEMMA OverlayTyped ==
    ASSUME NEW new \in Seq(Line), NEW old \in Seq(Line), NEW lines \in Overlay(new, old)
    PROVE  /\ lines \in Seq(Line)
           /\ old = << >> => lines = new
<1>1. ASSUME lines # new
      PROVE  lines \in Seq(Line) /\ old # << >>
  <2>1. \E i \in DOMAIN old : lines \in {new \o SubSeq(old, i, Len(old)),
                                        new \o <<Torn>> \o SubSeq(old, i + 1, Len(old))}
      BY <1>1 DEF Overlay
  <2>2. PICK i \in 1..Len(old) : lines \in {new \o SubSeq(old, i, Len(old)),
                                           new \o <<Torn>> \o SubSeq(old, i + 1, Len(old))}
      BY <2>1, Pieces
  <2>3. SubSeq(old, i, Len(old)) \in Seq(Line) /\ SubSeq(old, i + 1, Len(old)) \in Seq(Line)
    <3>1. Len(old) \in Nat /\ i \in 1..(Len(old) + 1) /\ i + 1 \in 1..(Len(old) + 1)
        OBVIOUS
    <3> QED BY <3>1, Pieces
  <2>4. new \o <<Torn>> \in Seq(Line)
      BY LineKinds, Joined, Pieces
  <2>5. old # << >>
      OBVIOUS
  <2> QED BY <2>2, <2>3, <2>4, <2>5, Joined
<1> QED
    BY <1>1

-----------------------------------------------------------------------------
(* The new text *)

(***************************************************************************)
(* Replacing the key lines keeps the length, every other line and its      *)
(* place.                                                                  *)
(***************************************************************************)
LEMMA ReplaceFacts ==
    ASSUME NEW lines \in Seq(Line), NEW id \in Runs
    PROVE  /\ Replace(lines, id) \in Seq(Line)
           /\ Len(Replace(lines, id)) = Len(lines)
           /\ \A i \in 1..Len(lines) :
                 Replace(lines, id)[i] = IF lines[i] \in Keys THEN Key(id) ELSE lines[i]
<1> DEFINE new == Replace(lines, id)
<1>1. Len(lines) \in Nat /\ DOMAIN lines = 1..Len(lines) /\ \A i \in 1..Len(lines) : lines[i] \in Line
    BY Pieces
<1>2. Key(id) \in Line
    BY LineKinds
<1>3. new = [i \in 1..Len(lines) |-> IF lines[i] \in Keys THEN Key(id) ELSE lines[i]]
    BY <1>1 DEF Replace
<1> HIDE DEF new
<1>4. new \in [1..Len(lines) -> Line]
    BY <1>1, <1>2, <1>3
<1>5. new \in Seq(Line) /\ Len(new) = Len(lines)
    BY <1>1, <1>4
<1>6. \A i \in 1..Len(lines) : new[i] = IF lines[i] \in Keys THEN Key(id) ELSE lines[i]
    BY <1>3
<1> QED
    BY <1>5, <1>6 DEF new

(***************************************************************************)
(* upsert_env_var: afterwards the key has the new id wherever it stands,   *)
(* and it stands somewhere; the other lines are kept; and the text grows   *)
(* by two lines at most, and only if it did not have the key.              *)
(***************************************************************************)
LEMMA UpsertFacts ==
    ASSUME NEW text \in Text, NEW id \in Runs
    PROVE  /\ Upsert(text, id) \in Text
           /\ OneId(Upsert(text, id).lines, id)
           /\ Only(Upsert(text, id).lines, Kept) = Only(text.lines, Kept)
           /\ Len(Upsert(text, id).lines) <= Len(text.lines) + 2
           /\ Found(text.lines) => Len(Upsert(text, id).lines) <= Len(text.lines)
<1> DEFINE old == text.lines
           n   == Len(old)
           new == Upsert(text, id).lines
           rep == Replace(old, id)
<1>1. old \in Seq(Line) /\ text.ended \in BOOLEAN
    BY DEF Text
<1>2. n \in Nat /\ DOMAIN old = 1..n /\ \A i \in 1..n : old[i] \in Line
    BY <1>1, Pieces
<1>3. Upsert(text, id).ended = TRUE /\ (new \in Seq(Line) => Upsert(text, id) \in Text)
    BY DEF Upsert, Text
<1>4. /\ rep \in Seq(Line) /\ Len(rep) = n
      /\ \A i \in 1..n : rep[i] = IF old[i] \in Keys THEN Key(id) ELSE old[i]
    BY <1>1, ReplaceFacts
<1>5. /\ Blank \in Line /\ Blank \notin Keys /\ Blank \notin Kept
      /\ \A line \in Keys : line \notin Kept
      /\ Key(id) \in Keys /\ Key(id) \in Line
    BY LineKinds
<1>6. CASE Found(old)
  <2> DEFINE m == Len(new)
  <2>1. new = IF rep[n] = Blank THEN SubSeq(rep, 1, n - 1) ELSE rep
      BY <1>4, <1>6 DEF Upsert
  <2>2. PICK f \in 1..n : old[f] \in Keys
      BY <1>2, <1>6 DEF Found
  <2> HIDE DEF old, rep, new, Blank, Keys, Kept, Key, Line
  <2>3. /\ new \in Seq(Line) /\ m \in Nat /\ DOMAIN new = 1..m /\ m <= n /\ f \in 1..m
        /\ \A i \in 1..m : new[i] = rep[i]
        /\ \A i \in (m+1)..n : rep[i] = Blank
    <3>1. CASE rep[n] = Blank
      <4>1. new = SubSeq(rep, 1, n - 1) /\ n - 1 \in 0..n /\ n - 1 \in Nat
          BY <1>2, <2>1, <2>2, <3>1
      <4>2. new \in Seq(Line) /\ m = n - 1 /\ \A i \in 1..(n-1) : new[i] = rep[i]
          BY <1>4, <4>1
      <4>3. f # n
          BY <1>4, <1>5, <2>2, <3>1
      <4> HIDE DEF m
      <4>4. DOMAIN new = 1..m
          BY <4>2 DEF m
      <4>5. m \in Nat /\ m <= n /\ f \in 1..m
        <5>1. n \in Nat /\ m = n - 1 /\ f \in 1..n /\ f # n
            BY <1>2, <2>2, <4>2, <4>3
        <5> HIDE DEF n
        <5> QED BY <5>1
      <4>6. \A i \in (m+1)..n : rep[i] = Blank
        <5>1. n \in Nat /\ m = n - 1
            BY <1>2, <4>2
        <5> HIDE DEF n
        <5>2. \A i \in (m+1)..n : i = n
            BY <5>1
        <5> QED BY <3>1, <5>2
      <4> QED BY <4>2, <4>4, <4>5, <4>6
    <3>2. CASE rep[n] # Blank
        BY <1>2, <1>4, <2>1, <2>2, <3>2
    <3> QED BY <3>1, <3>2
  <2> HIDE DEF m
  <2>4. OneId(new, id)
    <3>1. \A i \in 1..m : new[i] \in Keys => new[i] = Key(id)
        BY <1>2, <1>4, <2>3
    <3>2. new[f] \in Keys
        BY <1>4, <1>5, <2>2, <2>3
    <3> QED BY <2>3, <3>1, <3>2 DEF OneId, Found
  <2>5. Only(new, Kept) = Only(old, Kept)
    <3>1. OnlyTo(rep, Kept, n) = OnlyTo(old, Kept, n)
      <4>1. \A i \in 1..n : rep[i] = old[i] \/ (rep[i] \notin Kept /\ old[i] \notin Kept)
          BY <1>4, <1>5
      <4> QED BY <1>2, <4>1, OnlyToEq
    <3>2. OnlyTo(rep, Kept, n) = OnlyTo(rep, Kept, m)
      <4>1. \A i \in (m+1)..n : rep[i] \notin Kept
          BY <1>5, <2>3
      <4> QED BY <1>2, <2>3, <4>1, OnlyToSkip
    <3>3. OnlyTo(new, Kept, m) = OnlyTo(rep, Kept, m)
        BY <2>3, OnlyToEq
    <3> QED BY <3>1, <3>2, <3>3 DEF Only, m, n
  <2>6. Len(new) <= n
      BY <2>3 DEF m
  <2> HIDE DEF n
  <2>7. n <= n + 2 /\ Len(new) <= n + 2
      BY <1>2, <2>3, <2>6 DEF m
  <2> QED BY <1>3, <2>3, <2>4, <2>5, <2>6, <2>7 DEF n, old, new
<1>7. CASE ~Found(old)
  <2> DEFINE gap == IF text.ended \/ old = << >> THEN <<Blank>> ELSE << >>
             m   == Len(new)
  <2>1. new = old \o gap \o <<Key(id)>>
      BY <1>7 DEF Upsert
  <2>2. \A i \in 1..n : old[i] \notin Keys
      BY <1>2, <1>7 DEF Found
  <2> HIDE DEF old, new, Blank, Keys, Kept, Key, Line
  <2>3. /\ new \in Seq(Line) /\ m \in Nat /\ DOMAIN new = 1..m /\ n < m /\ m <= n + 2
        /\ \A i \in 1..n : new[i] = old[i]
        /\ \A i \in (n+1)..(m-1) : new[i] = Blank
        /\ new[m] = Key(id)
    <3>1. CASE gap = <<Blank>>
      <4>1. new = old \o <<Blank>> \o <<Key(id)>>
          BY <2>1, <3>1
      <4>2. /\ new \in Seq(Line) /\ m = n + 2 /\ DOMAIN new = 1..(n+2)
            /\ \A i \in 1..n : new[i] = old[i]
            /\ new[n+1] = Blank /\ new[n+2] = Key(id)
          BY <1>1, <1>2, <1>5, <4>1
      <4> HIDE DEF m
      <4> QED BY <1>2, <4>2
    <3>2. CASE gap = << >>
      <4>1. new = old \o <<Key(id)>>
        <5>1. old \o gap = old
            BY <1>1, <3>2
        <5> QED BY <2>1, <5>1
      <4>2. /\ new \in Seq(Line) /\ m = n + 1 /\ DOMAIN new = 1..(n+1)
            /\ \A i \in 1..n : new[i] = old[i]
            /\ new[n+1] = Key(id)
          BY <1>1, <1>2, <1>5, <4>1
      <4> HIDE DEF m
      <4> QED BY <1>2, <4>2
    <3> QED BY <3>1, <3>2
  <2> HIDE DEF m
  <2>4. OneId(new, id)
    <3>1. \A i \in 1..m : new[i] \in Keys => new[i] = Key(id)
      <4> SUFFICES ASSUME NEW i \in 1..m, new[i] \in Keys PROVE i = m
          BY <2>3
      <4>1. i \in 1..n \/ i \in (n+1)..(m-1) \/ i = m
          BY <1>2, <2>3
      <4> QED BY <1>5, <2>2, <2>3, <4>1
    <3>2. m \in 1..m /\ new[m] \in Keys
        BY <1>2, <1>5, <2>3
    <3> QED BY <2>3, <3>1, <3>2 DEF OneId, Found
  <2>5. Only(new, Kept) = Only(old, Kept)
    <3>1. OnlyTo(new, Kept, m) = OnlyTo(new, Kept, n)
      <4>1. ASSUME NEW i \in (n+1)..m PROVE new[i] \notin Kept
        <5>1. i \in (n+1)..(m-1) \/ i = m
            BY <1>2, <2>3
        <5> QED BY <1>5, <2>3, <5>1
      <4>2. n <= m
          BY <1>2, <2>3
      <4> QED BY <1>2, <2>3, <4>1, <4>2, OnlyToSkip
    <3>2. OnlyTo(new, Kept, n) = OnlyTo(old, Kept, n)
        BY <1>2, <2>3, OnlyToEq
    <3> QED BY <3>1, <3>2 DEF Only, m, n
  <2>6. Len(new) <= n + 2
      BY <2>3 DEF m
  <2> HIDE DEF n
  <2> QED BY <1>3, <1>7, <2>3, <2>4, <2>5, <2>6 DEF n, old, new
<1> QED
    BY <1>6, <1>7

-----------------------------------------------------------------------------
(* Steps *)

(***************************************************************************)
(* The text a run reads, with no file read as no text, is a text.          *)
(***************************************************************************)
LEMMA ExistingTyped ==
    ASSUME DeployTypeOK
    PROVE  existing \in Text /\ existing.lines \in Seq(Line) /\ Empty \in Text
<1>1. Empty \in Text /\ None \notin Text
    BY DeployAssumption DEF Empty, Text
<1>2. existing \in Text
    BY <1>1 DEF DeployTypeOK, existing
<1> QED
    BY <1>1, <1>2 DEF Text

LEMMA DeployTypeNext ==
    ASSUME DeployTypeOK, Next
    PROVE  DeployTypeOK'
<1>1. PICK r \in Runs : \/ deploy(r) \/ deploy_fails(r) \/ read_to_string(r) \/ io_error(r)
                        \/ create(r) \/ write_all(r) \/ write_stops(r) \/ output(r) \/ Crash(r)
    BY DEF Next
<1>2. \A to \in Stage : [pc EXCEPT ![r] = to] \in [Runs -> Stage]
    BY DEF DeployTypeOK
<1>3. \A stage \in {"start", "deployed", "read", "truncated", "written", "done",
                     "undeployed", "failed", "crashed"} : stage \in Stage
    BY DEF Stage
<1>4. CASE UNCHANGED <<file, content, start, last, owner, grade>> /\ \E to \in Stage : pc' = [pc EXCEPT ![r] = to]
    BY <1>2, <1>4 DEF DeployTypeOK
<1>5. CASE read_to_string(r)
  <2>1. Upsert(existing, r) \in Text
      BY ExistingTyped, UpsertFacts
  <2>2. [text |-> Upsert(existing, r), grade |-> IF grade = "kept" THEN "kept" ELSE "lossy"]
          \in [text : Text, grade : {"kept", "lossy"}]
      BY <2>1
  <2> HIDE DEF Text, Upsert
  <2>3. content' \in [Runs -> [text : Text, grade : {"kept", "lossy"}]]
      BY <1>5, <2>2 DEF read_to_string, DeployTypeOK
  <2>4. pc' \in [Runs -> Stage] /\ UNCHANGED <<file, start, last, owner, grade>>
      BY <1>2, <1>3, <1>5 DEF read_to_string, Goto
  <2> QED BY <2>3, <2>4 DEF DeployTypeOK
<1>6. CASE create(r)
  <2>1. pc' \in [Runs -> Stage] /\ UNCHANGED <<content, start, last>>
      BY <1>2, <1>3, <1>6 DEF create, Goto
  <2>2. file' \in Text /\ owner' \in Runs \union {None} /\ grade' = "torn"
      BY <1>6, ExistingTyped DEF create
  <2> QED BY <2>1, <2>2 DEF DeployTypeOK
<1>7. CASE write_all(r)
  <2>1. pc' \in [Runs -> Stage] /\ UNCHANGED <<content, start, owner>> /\ last' = r
      BY <1>2, <1>3, <1>7 DEF write_all, Goto
  <2>2. content[r].grade \in {"kept", "lossy"} /\ content[r].text \in Text
      BY DEF DeployTypeOK
  <2>3. grade' \in {"torn", "lossy", "kept"}
      BY <1>7, <2>2 DEF write_all
  <2>4. PICK lines \in Overlay(content[r].text.lines, existing.lines) :
           file' = [lines |-> lines, ended |-> TRUE]
      BY <1>7 DEF write_all
  <2>5. content[r].text.lines \in Seq(Line)
      BY <2>2 DEF Text
  <2>6. lines \in Seq(Line)
      BY <2>4, <2>5, ExistingTyped, OverlayTyped
  <2>7. file' \in Text
      BY <2>4, <2>6 DEF Text
  <2> QED BY <2>1, <2>3, <2>7 DEF DeployTypeOK
<1>8. CASE write_stops(r)
  <2>1. pc' \in [Runs -> Stage] /\ UNCHANGED <<content, start, last, owner, grade>>
      BY <1>2, <1>3, <1>8 DEF write_stops, Goto
  <2>2. content[r].text.lines \in Seq(Line)
      BY DEF DeployTypeOK, Text
  <2>3. PICK new \in Beginnings(content[r].text.lines), ended \in BOOLEAN :
           \E lines \in Overlay(new, existing.lines) :
              file' = [lines |-> lines, ended |-> ended /\ lines # << >>]
      BY <1>8 DEF write_stops
  <2>4. PICK lines \in Overlay(new, existing.lines) :
           file' = [lines |-> lines, ended |-> ended /\ lines # << >>]
      BY <2>3
  <2>5. lines \in Seq(Line)
      BY <2>2, <2>4, BeginningsTyped, ExistingTyped, OverlayTyped
  <2>6. file' \in Text
      BY <2>4, <2>5 DEF Text
  <2> QED BY <2>1, <2>6 DEF DeployTypeOK
<1>9. CASE deploy(r)
    BY <1>3, <1>4, <1>9 DEF deploy, Goto
<1>10. CASE deploy_fails(r)
    BY <1>3, <1>4, <1>10 DEF deploy_fails, Goto
<1>11. CASE io_error(r)
    BY <1>3, <1>4, <1>11 DEF io_error, Goto
<1>12. CASE output(r)
    BY <1>3, <1>4, <1>12 DEF output, Goto
<1>13. CASE Crash(r)
    BY <1>3, <1>4, <1>13 DEF Crash, Goto
<1> QED
    BY <1>1, <1>5, <1>6, <1>7, <1>8, <1>9, <1>10, <1>11, <1>12, <1>13

(***************************************************************************)
(* A step that touches neither the file nor a text about to be written,    *)
(* and takes no run to one of the two stages before a write.               *)
(***************************************************************************)
LEMMA AsideKeeps ==
    ASSUME DeployInv, UNCHANGED <<file, content, start, last, owner, grade>>,
           \A q \in Runs : pc'[q] \in {"read", "truncated"} => pc'[q] = pc[q]
    PROVE  TruncatedAlone' /\ ContentReady' /\ FileKept' /\ LastWritten'
<1>1. TruncatedAlone'
    BY DEF DeployInv, TruncatedAlone
<1>2. ContentReady'
    BY DEF DeployInv, ContentReady, KeepsStart
<1>3. FileKept'
    BY DEF DeployInv, FileKept, KeepsStart, existing
<1>4. LastWritten'
    BY DEF DeployInv, LastWritten
<1> QED
    BY <1>1, <1>2, <1>3, <1>4

(***************************************************************************)
(* upsert_env_var reads the file: whatever it finds, the text it computes  *)
(* has its own id, and the start's other lines if the file had them.       *)
(***************************************************************************)
LEMMA ReadKeeps ==
    ASSUME DeployInv, NEW r \in Runs, read_to_string(r)
    PROVE  TruncatedAlone' /\ ContentReady' /\ FileKept' /\ LastWritten'
<1>1. DeployTypeOK /\ TruncatedAlone /\ ContentReady /\ FileKept /\ LastWritten
    BY DEF DeployInv
<1>2. /\ UNCHANGED <<file, start, last, owner, grade>>
      /\ pc[r] = "deployed" /\ pc'[r] = "read"
      /\ \A q \in Runs : q # r => pc'[q] = pc[q] /\ content'[q] = content[q]
      /\ content'[r] = [text |-> Upsert(existing, r),
                        grade |-> IF grade = "kept" THEN "kept" ELSE "lossy"]
    BY <1>1 DEF read_to_string, Goto, DeployTypeOK
<1>3. existing \in Text /\ start \in Text
    BY <1>1, ExistingTyped DEF DeployTypeOK
<1>4. OneId(Upsert(existing, r).lines, r)
    BY <1>3, UpsertFacts
<1>5. ASSUME grade = "kept" PROVE KeepsStart(Upsert(existing, r).lines)
  <2> DEFINE new == Upsert(existing, r).lines
  <2>1. /\ Only(new, Kept) = Only(existing.lines, Kept)
        /\ Len(new) <= Len(existing.lines) + 2
        /\ Found(existing.lines) => Len(new) <= Len(existing.lines)
        /\ new \in Seq(Line)
      BY <1>3, UpsertFacts DEF Text
  <2>2. Found(new)
      BY <1>4 DEF OneId
  <2>3. Len(new) \in Nat /\ Len(existing.lines) \in Nat /\ Len(start.lines) \in Nat
      BY <1>3, <2>1 DEF Text
  <2> HIDE DEF new
  <2>4. existing.lines = start.lines => KeepsStart(new)
      BY <2>1, <2>2 DEF KeepsStart
  <2>5. KeepsStart(existing.lines) => KeepsStart(new)
      BY <2>1, <2>2, <2>3 DEF KeepsStart
  <2> QED BY <1>1, <1>5, <2>4, <2>5 DEF FileKept, new
<1> HIDE DEF Upsert
<1>6. ContentReady'
  <2> SUFFICES ASSUME NEW q \in Runs, pc'[q] \in {"read", "truncated"}
               PROVE  /\ OneId(content'[q].text.lines, q)
                      /\ content'[q].grade = "kept" => KeepsStart(content'[q].text.lines)
      BY <1>2 DEF ContentReady, KeepsStart
  <2>1. CASE q = r
      BY <1>2, <1>4, <1>5, <2>1
  <2>2. CASE q # r
      BY <1>1, <1>2, <2>2 DEF ContentReady
  <2> QED BY <2>1, <2>2
<1>7. TruncatedAlone'
    BY <1>1, <1>2 DEF TruncatedAlone
<1>8. FileKept'
    BY <1>1, <1>2 DEF FileKept, KeepsStart, existing
<1>9. LastWritten'
    BY <1>1, <1>2 DEF LastWritten
<1> QED
    BY <1>6, <1>7, <1>8, <1>9

(***************************************************************************)
(* File::create: the file is torn until a write is complete.               *)
(***************************************************************************)
LEMMA CreateKeeps ==
    ASSUME DeployInv, NEW r \in Runs, create(r)
    PROVE  TruncatedAlone' /\ ContentReady' /\ FileKept' /\ LastWritten'
<1>1. DeployTypeOK /\ TruncatedAlone /\ ContentReady
    BY DEF DeployInv
<1>2. /\ UNCHANGED <<content, start, last>>
      /\ pc[r] = "read" /\ pc'[r] = "truncated"
      /\ \A q \in Runs : q # r => pc'[q] = pc[q]
      /\ file' = Empty /\ grade' = "torn"
      /\ owner' = IF \E q \in Runs : pc[q] = "truncated" THEN None ELSE r
    BY <1>1 DEF create, Goto, DeployTypeOK
<1>3. TruncatedAlone'
    BY <1>1, <1>2, DeployAssumption DEF TruncatedAlone, Empty
<1>4. ContentReady'
    BY <1>1, <1>2 DEF ContentReady, KeepsStart
<1>5. FileKept' /\ LastWritten'
    BY <1>2 DEF FileKept, LastWritten
<1> QED
    BY <1>3, <1>4, <1>5

(***************************************************************************)
(* write_all: a run that was alone since it truncated the file leaves its  *)
(* own text there and nothing else.                                        *)
(***************************************************************************)
LEMMA WriteKeeps ==
    ASSUME DeployInv, NEW r \in Runs, write_all(r)
    PROVE  TruncatedAlone' /\ ContentReady' /\ FileKept' /\ LastWritten'
<1>1. DeployTypeOK /\ TruncatedAlone /\ ContentReady
    BY DEF DeployInv
<1>2. /\ UNCHANGED <<content, start, owner>>
      /\ pc[r] = "truncated" /\ pc'[r] = "written"
      /\ \A q \in Runs : q # r => pc'[q] = pc[q]
      /\ last' = r
      /\ grade' = IF owner = r THEN content[r].grade ELSE "torn"
    BY <1>1 DEF write_all, Goto, DeployTypeOK
<1>3. PICK lines \in Overlay(content[r].text.lines, existing.lines) :
         file' = [lines |-> lines, ended |-> TRUE]
    BY DEF write_all
<1>4. content[r].text.lines \in Seq(Line) /\ content[r].grade \in {"kept", "lossy"}
    BY <1>1 DEF DeployTypeOK, Text
<1>5. ContentReady'
    BY <1>1, <1>2 DEF ContentReady, KeepsStart
<1>6. CASE owner = r
  <2>1. existing.lines = << >> /\ \A q \in Runs : pc[q] = "truncated" => q = r
    <3>1. file = Empty /\ \A q \in Runs : pc[q] = "truncated" => q = r
        BY <1>1, <1>2, <1>6 DEF TruncatedAlone
    <3> QED BY <3>1 DEF existing, Empty
  <2>2. lines = content[r].text.lines
      BY <1>1, <1>3, <1>4, <2>1, ExistingTyped, OverlayTyped
  <2>3. file'.lines = content[r].text.lines /\ file' \in Text /\ file' # None
    <3>1. file' = [lines |-> content[r].text.lines, ended |-> TRUE]
        BY <1>3, <2>2
    <3>2. file' \in Text
        BY <1>4, <3>1 DEF Text
    <3> QED BY <3>1, <3>2, DeployAssumption
  <2>4. OneId(file'.lines, r)
      BY <1>1, <1>2, <2>3 DEF ContentReady
  <2>5. LastWritten'
      BY <1>2, <2>3, <2>4 DEF LastWritten
  <2>6. FileKept'
    <3>1. grade' = "kept" => KeepsStart(file'.lines)
        BY <1>1, <1>2, <1>6, <2>3 DEF ContentReady
    <3> QED BY <1>2, <2>3, <3>1 DEF FileKept, existing, KeepsStart
  <2>7. TruncatedAlone'
      BY <1>2, <2>1 DEF TruncatedAlone
  <2> QED BY <1>5, <2>5, <2>6, <2>7
<1>7. CASE owner # r
  <2>1. FileKept' /\ LastWritten'
      BY <1>2, <1>7 DEF FileKept, LastWritten
  <2>2. ASSUME NEW q \in Runs, pc'[q] = "truncated"
        PROVE  q # r /\ pc[q] = "truncated" /\ owner # q
      BY <1>1, <1>2, <2>2 DEF TruncatedAlone
  <2>3. TruncatedAlone'
      BY <1>2, <1>7, <2>2 DEF TruncatedAlone
  <2> QED BY <1>5, <2>1, <2>3
<1> QED
    BY <1>6, <1>7

(***************************************************************************)
(* A write that stops in the middle leaves a file that counts as torn.     *)
(***************************************************************************)
LEMMA StopKeeps ==
    ASSUME DeployInv, NEW r \in Runs, write_stops(r)
    PROVE  TruncatedAlone' /\ ContentReady' /\ FileKept' /\ LastWritten'
<1>1. DeployTypeOK /\ TruncatedAlone /\ ContentReady
    BY DEF DeployInv
<1>2. /\ UNCHANGED <<content, start, last, owner, grade>>
      /\ pc[r] = "truncated" /\ pc'[r] \in {"failed", "crashed"}
      /\ \A q \in Runs : q # r => pc'[q] = pc[q]
    BY <1>1 DEF write_stops, Goto, DeployTypeOK
<1>3. grade = "torn"
    BY <1>1, <1>2 DEF TruncatedAlone
<1>4. ContentReady'
    BY <1>1, <1>2 DEF ContentReady, KeepsStart
<1>5. FileKept' /\ LastWritten'
    BY <1>2, <1>3 DEF FileKept, LastWritten
<1>6. ASSUME NEW q \in Runs, pc'[q] = "truncated"
      PROVE  q # r /\ pc[q] = "truncated" /\ owner # q
    BY <1>1, <1>2, <1>6 DEF TruncatedAlone
<1>7. TruncatedAlone'
    BY <1>2, <1>3, <1>6 DEF TruncatedAlone
<1> QED
    BY <1>4, <1>5, <1>7

-----------------------------------------------------------------------------
(* The theorems *)

LEMMA DeployInvInit == Init => DeployInv
<1> SUFFICES ASSUME Init PROVE DeployInv
    OBVIOUS
<1>1. DeployTypeOK
  <2>1. Empty \in Text /\ None \notin Text
      BY DeployAssumption DEF Empty, Text
  <2>2. pc \in [Runs -> Stage]
      BY DEF Init, Stage
  <2>3. content \in [Runs -> [text : Text, grade : {"kept", "lossy"}]]
      BY <2>1 DEF Init
  <2>4. file \in Text \union {None} /\ start \in Text
      BY <2>1, DeployAssumption DEF Init, existing
  <2> QED BY <2>2, <2>3, <2>4 DEF Init, DeployTypeOK
<1>2. TruncatedAlone /\ ContentReady
    BY DEF Init, TruncatedAlone, ContentReady
<1>3. FileKept /\ LastWritten
    BY DEF Init, FileKept, LastWritten
<1> QED
    BY <1>1, <1>2, <1>3 DEF DeployInv

LEMMA DeployInvNext == DeployInv /\ [Next]_vars => DeployInv'
<1> SUFFICES ASSUME DeployInv, [Next]_vars PROVE DeployInv'
    OBVIOUS
<1>1. DeployTypeOK
    BY DEF DeployInv
<1>2. CASE UNCHANGED vars
  <2>1. TruncatedAlone' /\ ContentReady' /\ FileKept' /\ LastWritten'
      BY <1>2, AsideKeeps DEF vars
  <2>2. DeployTypeOK'
      BY <1>1, <1>2 DEF DeployTypeOK, vars
  <2> QED BY <2>1, <2>2 DEF DeployInv
<1>3. CASE Next
  <2>1. PICK r \in Runs : \/ deploy(r) \/ deploy_fails(r) \/ read_to_string(r) \/ io_error(r)
                          \/ create(r) \/ write_all(r) \/ write_stops(r) \/ output(r) \/ Crash(r)
      BY <1>3 DEF Next
  <2>2. ASSUME UNCHANGED <<file, content, start, last, owner, grade>>,
               \E to \in {"deployed", "undeployed", "failed", "done", "crashed"} :
                  pc' = [pc EXCEPT ![r] = to]
        PROVE  TruncatedAlone' /\ ContentReady' /\ FileKept' /\ LastWritten'
    <3>1. \A q \in Runs : pc'[q] \in {"read", "truncated"} => pc'[q] = pc[q]
        BY <1>1, <2>2 DEF DeployTypeOK
    <3> QED BY <2>2, <3>1, AsideKeeps
  <2>3. TruncatedAlone' /\ ContentReady' /\ FileKept' /\ LastWritten'
    <3>1. CASE deploy(r)
        BY <2>2, <3>1 DEF deploy, Goto
    <3>2. CASE deploy_fails(r)
        BY <2>2, <3>2 DEF deploy_fails, Goto
    <3>3. CASE read_to_string(r)
        BY <3>3, ReadKeeps
    <3>4. CASE io_error(r)
        BY <2>2, <3>4 DEF io_error, Goto
    <3>5. CASE create(r)
        BY <3>5, CreateKeeps
    <3>6. CASE write_all(r)
        BY <3>6, WriteKeeps
    <3>7. CASE write_stops(r)
        BY <3>7, StopKeeps
    <3>8. CASE output(r)
        BY <2>2, <3>8 DEF output, Goto
    <3>9. CASE Crash(r)
        BY <2>2, <3>9 DEF Crash, Goto
    <3> QED BY <2>1, <3>1, <3>2, <3>3, <3>4, <3>5, <3>6, <3>7, <3>8, <3>9
  <2>4. DeployTypeOK'
      BY <1>1, <1>3, DeployTypeNext
  <2> QED BY <2>3, <2>4 DEF DeployInv
<1> QED
    BY <1>2, <1>3

(***************************************************************************)
(* However many deployments overlap, fail or crash: when one of them has   *)
(* written the file undisturbed, ESCROW_CONTRACT_ID is its id and nothing  *)
(* else.                                                                   *)
(***************************************************************************)
THEOREM LastIdAlwaysStands == Spec => []LastIdStands
<1>1. DeployInv => LastIdStands
    BY DEF DeployInv, LastWritten, OneId, LastIdStands
<1> QED
    BY <1>1, DeployInvInit, DeployInvNext, PTL DEF Spec

(***************************************************************************)
(* The other lines of the .env file survive every sequence of deployments  *)
(* of which none reads or stops between a truncation and its write, and    *)
(* the file does not grow by more than the line of the key and a blank.    *)
(***************************************************************************)
THEOREM OthersAlwaysKept == Spec => []OthersKept
<1>1. DeployInv => OthersKept
  <2> SUFFICES ASSUME DeployInv, grade = "kept"
               PROVE  /\ Only(existing.lines, Kept) = Only(start.lines, Kept)
                      /\ Len(existing.lines) <= Len(start.lines) + 2
      BY DEF OthersKept, Kept
  <2>1. existing.lines = start.lines \/ KeepsStart(existing.lines)
      BY DEF DeployInv, FileKept
  <2>2. Len(start.lines) \in Nat
      BY DEF DeployInv, DeployTypeOK, Text
  <2> QED BY <2>1, <2>2 DEF KeepsStart
<1> QED
    BY <1>1, DeployInvInit, DeployInvNext, PTL DEF Spec

=============================================================================

---------------------------- MODULE StartupProof ----------------------------
(***************************************************************************)
(* Theorems about Startup and the parser that it calls, for lists of any   *)
(* length, lines of any shape and any choice of a channel.  What the       *)
(* parser keeps between two fields (Progress) is what makes a line that is *)
(* abandoned harmless and a line that is not an entry; what main keeps     *)
(* between two calls (Sequence) carries the rest.                          *)
(***************************************************************************)
EXTENDS Startup, SequenceTheorems, FunctionTheorems, FiniteSetTheorems, TLAPS

Origins == [number : 0..MaxLines, kind : Kinds, comment : BOOLEAN]

ListTypes ==
  /\ number \in 0..MaxLines
  /\ lines \in Seq(Lines) /\ Len(lines) = number
  /\ field \in 0..6
  /\ field # 0 => number > 0 /\ line = lines[number]
  /\ count \in 0..MaxPrograms /\ (field # 0 => Room)
  /\ line_pos \in Seq(Kinds)
  /\ p \in [0..MaxPrograms -> [1..6 -> Origins]]

\* Where the fields from the second on are: in the comment, if nothing else is
\* on the line.
Source(l) == IF Len(l.text) = 1 THEN l.comment ELSE Tail(l.text)

\* The lines that make an entry: the complete ones, and those that would be if the
\* comment began with their second field.
Accepted(l) == l.text[1] # "long" /\ Good(Source(l))

\* The kinds of the fields that such a line needs.
Needed == <<"int", "setting", "int", "int">>

\* Within a line: the fields before this one are in the entry, they were what
\* they must be, and line_pos is what is left.
Progress ==
  /\ field = 1 => line_pos = line.text
  /\ field > 1 =>
       /\ line.text[1] # "long"
       /\ \A j \in 1..field-1 : p[count][j].number = number
       /\ \A j \in 2..field-1 : p[count][j].comment = (Len(line.text) = 1)
       /\ Len(Source(line)) = Len(line_pos) + field - 2
       /\ \A i \in 1..field-2 : Source(line)[i] = Needed[i]
       /\ \A i \in 1..Len(line_pos) : line_pos[i] = Source(line)[i + field - 2]

\* The lines that are dealt with.
Done == IF field = 0 THEN number ELSE number - 1

\* Each entry is of one such line, and each such line has an entry; where the
\* second field is from tells whether it is one with a comment.
Entries ==
  /\ NoMixing
  /\ \A i \in 0..count-1 : p[i][2].comment = (Len(lines[p[i][1].number].text) = 1)
  /\ \A i \in 0..count-1 : p[i][1].number \in 1..Done
  /\ \A i \in 0..count-1 : Accepted(lines[p[i][1].number])
  /\ \A n \in 1..Done : Accepted(lines[n]) => \E i \in 0..count-1 : p[i][1].number = n
  /\ \A i, k \in 0..count-1 : i < k => p[i][1].number < p[k][1].number

ListInv == ListTypes /\ Progress /\ Entries

\* The calls before the list is read, those that need the device, those after
\* the filter is set, and so on.
Starting == {"thread_input", "thread_output", "thread_encoder", "rtp_sender", "enter"}
Equipped == {"socket", "accept"} \cup Starting
Tuned == {"start", "decoder", "input"} \cup Equipped
Filtered == {"add_audio", "add_pat", "add_pmt"} \cup Tuned
Opened == {"property", "filter"} \cup Filtered
Listed == {"open", "buffer"} \cup Opened

\* What is there before each call.
Sequence ==
  /\ pc \in {"rtp", "parse"} \cup Listed
  /\ pc \in {"rtp", "parse"} => entry = "none"
  /\ pc \in Listed => field = 0 /\ entry # "none"
  /\ pc \in Opened => device
  /\ pc \in Filtered => pids # {}
  /\ pc \in Equipped => decoder
  /\ pc \in Starting => client
  /\ threads = CASE pc = "thread_output"  -> {"thread_input"}
                 [] pc = "thread_encoder" -> {"thread_input", "thread_output"}
                 [] pc = "rtp_sender"     -> Threads \ {"rtp_sender"}
                 [] pc = "enter"          -> Threads
                 [] OTHER                 -> {}

\* Nothing but the end of the list and the calls' own variables can change the
\* entry, and as long as it is the line's so are the filters, those that could
\* not be set left out.  A call has not failed before it is made.
Selected ==
  /\ entry = "garbage" => channel >= count \/ channel \in Reached
  /\ "add_audio" \in failed => pc \in {"add_pat", "add_pmt"} \cup Tuned
  /\ "add_pat" \in failed => pc \in {"add_pmt"} \cup Tuned
  /\ entry = "line" =>
       /\ pc = "add_audio" => pids = {"video"}
       /\ pc = "add_pat" => pids = {"video"} \cup Sound
       /\ pc = "add_pmt" => pids = {"video"} \cup Sound \cup Tables
       /\ pc \in Tuned => pids = Streams

MainTypeOK ==
  /\ status \in {"running", "ended", "crashed"}
  /\ channel \in Choices
  /\ entry \in {"none", "line", "garbage"}
  /\ device \in BOOLEAN /\ decoder \in BOOLEAN
  /\ output \in BOOLEAN /\ client \in BOOLEAN
  /\ pids \subseteq {"video", "audio", "pat", "pmt", "other"}
  /\ threads \subseteq Threads

MainInv == MainTypeOK /\ Sequence /\ Selected

IInv == ListInv /\ MainInv /\ OnlyOutputMissing
-----------------------------------------------------------------------------
(***************************************************************************)
(* The parser.                                                             *)
(***************************************************************************)
LEMMA FieldNames ==
  /\ Len(Fields) = 6
  /\ \A f \in 1..6 : Fields[f] = "setting" <=> f = 3
  /\ \A f \in 1..6 : Fields[f] = "service_id" <=> f = 6
BY DEF Fields

\* What is wanted of the fields before the service id.
LEMMA WantedIsNeeded ==
  ASSUME field \in 2..5
  PROVE  Wanted = Needed[field - 1] /\ Wanted # "" /\ Wanted \in Kinds
<1>1. field = 2 \/ field = 3 \/ field = 4 \/ field = 5
  OBVIOUS
<1> QED
  BY <1>1, FieldNames DEF Wanted, Needed, Kinds

\* A sequence that is not empty has a head, and a tail of one element less.
LEMMA HeadAndTail ==
  ASSUME NEW S, NEW s \in Seq(S), s # <<>>
  PROVE  /\ Len(s) \in Nat \ {0} /\ Head(s) = s[1] /\ s[1] \in S
         /\ Tail(s) \in Seq(S) /\ Len(Tail(s)) = Len(s) - 1
         /\ \A i \in 1..Len(Tail(s)) : Tail(s)[i] = s[i + 1]
         /\ (Len(s) = 1) <=> (Tail(s) = <<>>)
<1>1. Len(s) \in Nat \ {0}
  BY EmptySeq
<1>2. /\ Tail(s) \in Seq(S) /\ Len(Tail(s)) = Len(s) - 1
      /\ \A i \in 1..Len(Tail(s)) : Tail(s)[i] = s[i + 1]
  BY HeadTailProperties
<1>3. Head(s) = s[1]
  OBVIOUS
<1>4. s[1] \in S
  BY <1>1, ElementOfSeq
<1>5. Tail(s) = <<>> => Len(Tail(s)) = 0
  BY EmptySeq
<1>6. Tail(s) # <<>> => Len(Tail(s)) # 0
  BY <1>2, EmptySeq
<1>7. (Len(s) = 1) <=> (Tail(s) = <<>>)
  BY <1>1, <1>2, <1>5, <1>6
<1> QED
  BY <1>1, <1>2, <1>3, <1>4, <1>7

\* The lines that are read are not empty.
LEMMA LineTypes ==
  ASSUME NEW l \in Lines
  PROVE  /\ l.text \in Seq(Kinds) /\ l.comment \in Seq(Kinds)
         /\ Len(l.text) \in Nat \ {0} /\ l.text[1] \in Kinds
         /\ Source(l) \in Seq(Kinds)
         /\ Head(l.text) = l.text[1]
         /\ (Len(l.text) = 1) <=> (Tail(l.text) = <<>>)
<1>1. l.text \in Seq(Kinds) /\ l.text # <<>> /\ l.comment \in Seq(Kinds)
  BY LinesAssumption
<1>2. /\ Len(l.text) \in Nat \ {0} /\ l.text[1] \in Kinds /\ Head(l.text) = l.text[1]
      /\ (Len(l.text) = 1) <=> (Tail(l.text) = <<>>)
  BY <1>1, HeadAndTail
<1>3. Tail(l.text) \in Seq(Kinds)
  BY <1>1, HeadAndTail
<1>5. Source(l) \in Seq(Kinds)
  BY <1>1, <1>3 DEF Source
<1> QED
  BY <1>1, <1>2, <1>5

\* A line makes an entry if its name fits and its source begins with what is needed.
LEMMA AcceptedBySource ==
  ASSUME NEW l \in Lines
  PROVE  Accepted(l) <=> /\ l.text[1] # "long"
                         /\ Len(Source(l)) >= 4
                         /\ \A i \in 1..4 : Source(l)[i] = Needed[i]
<1>1. \A s : (/\ s[1] = "int" /\ s[2] = "setting" /\ s[3] = "int" /\ s[4] = "int")
               <=> \A i \in 1..4 : s[i] = Needed[i]
  <2> SUFFICES ASSUME NEW s
               PROVE  (s[1] = "int" /\ s[2] = "setting" /\ s[3] = "int" /\ s[4] = "int")
                        <=> \A i \in 1..4 : s[i] = Needed[i]
    OBVIOUS
  <2>1. \A i \in 1..4 : i = 1 \/ i = 2 \/ i = 3 \/ i = 4
    OBVIOUS
  <2>2. Needed[1] = "int" /\ Needed[2] = "setting" /\ Needed[3] = "int" /\ Needed[4] = "int"
    BY DEF Needed
  <2> QED
    BY <2>1, <2>2
<1>2. Good(Source(l)) <=> Len(Source(l)) >= 4 /\ \A i \in 1..4 : Source(l)[i] = Needed[i]
  BY <1>1 DEF Good
<1>3. Accepted(l) <=> l.text[1] # "long" /\ Good(Source(l))
  BY DEF Accepted
<1> QED
  BY <1>2, <1>3

\* The token is the first of what line_pos points at, and the rest follows.
LEMMA Tokens ==
  ASSUME ListTypes
  PROVE  /\ Token \in Kinds /\ Rest \in Seq(Kinds)
         /\ Len(line_pos) \in Nat
         /\ line_pos = <<>> => Token = "" /\ Len(line_pos) = 0
         /\ line_pos # <<>> =>
              /\ Token = line_pos[1] /\ Len(line_pos) > 0
              /\ Len(Rest) = Len(line_pos) - 1
              /\ \A i \in 1..Len(Rest) : Rest[i] = line_pos[i + 1]
<1>1. line_pos \in Seq(Kinds) /\ "" \in Kinds
  BY DEF ListTypes, Kinds
<1>2. CASE line_pos = <<>>
  BY <1>1, <1>2, EmptySeq DEF Token, Rest
<1>3. CASE line_pos # <<>>
  <2>1. Token = Head(line_pos) /\ Rest = Tail(line_pos)
    BY <1>3 DEF Token, Rest
  <2>2. /\ Len(line_pos) \in Nat \ {0} /\ Head(line_pos) = line_pos[1]
        /\ line_pos[1] \in Kinds
        /\ Tail(line_pos) \in Seq(Kinds) /\ Len(Tail(line_pos)) = Len(line_pos) - 1
        /\ \A i \in 1..Len(Tail(line_pos)) : Tail(line_pos)[i] = line_pos[i + 1]
    BY <1>1, <1>3, HeadAndTail
  <2>3. /\ Token = line_pos[1] /\ Token \in Kinds
        /\ Rest \in Seq(Kinds) /\ Len(Rest) = Len(line_pos) - 1
    BY <2>1, <2>2
  <2>4. \A i \in 1..Len(Rest) : Rest[i] = line_pos[i + 1]
    BY <2>1, <2>2
  <2>5. Len(line_pos) \in Nat /\ Len(line_pos) > 0
    BY <2>2
  <2> QED
    BY <2>3, <2>4, <2>5, <1>3, Zenon
<1> QED
  BY <1>2, <1>3

\* Storing a field changes the entry being read only, and there that field.
LEMMA StoreKeeps ==
  ASSUME ListTypes, field # 0, NEW kind \in Kinds, Store(kind)
  PROVE  /\ p' \in [0..MaxPrograms -> [1..6 -> Origins]]
         /\ \A i \in 0..count-1 : p'[i] = p[i]
         /\ p'[count][field].number = number
         /\ p'[count][field].comment = InComment
         /\ \A j \in 1..6 \ {field} : p'[count][j] = p[count][j]
<1> DEFINE new == [number |-> number, kind |-> kind, comment |-> InComment]
<1>1. new \in Origins
  BY DEF ListTypes, Origins, InComment
<1>2. count \in 0..MaxPrograms /\ field \in 1..6 /\ MaxPrograms \in Nat
  BY LinesAssumption DEF ListTypes
<1>3. p \in [0..MaxPrograms -> [1..6 -> Origins]]
  BY DEF ListTypes
<1>4. p' = [p EXCEPT ![count][field] = new]
  BY DEF Store
<1>5. new.number = number /\ new.comment = InComment
  OBVIOUS
<1> HIDE DEF new
<1> QED
  BY <1>1, <1>2, <1>3, <1>4, <1>5

\* A step within a line, or one that begins a line, leaves the entries as they are.
LEMMA EntriesStay ==
  ListInv /\ count' = count /\ Done' = Done
    /\ (\A i \in 0..count-1 : p'[i] = p[i])
    /\ (\A n \in 1..number : lines'[n] = lines[n]) => Entries'
<1> SUFFICES ASSUME ListInv, count' = count, Done' = Done,
                    \A i \in 0..count-1 : p'[i] = p[i],
                    \A n \in 1..number : lines'[n] = lines[n]
             PROVE  Entries'
  OBVIOUS
<1>1. Entries /\ Done \in Int /\ \A n \in 1..Done : n \in 1..number
  BY DEF ListInv, ListTypes, Done
<1>2. NoMixing'
  BY <1>1 DEF Entries, NoMixing
<1>3. \A i \in 0..count-1 : p'[i][1].number \in 1..Done
  BY <1>1 DEF Entries
<1>4. \A i \in 0..count-1 : Accepted(lines'[p'[i][1].number])
  BY <1>1, <1>3 DEF Entries
<1>5. \A n \in 1..Done : Accepted(lines'[n]) => \E i \in 0..count-1 : p'[i][1].number = n
  BY <1>1 DEF Entries
<1>6. \A i, k \in 0..count-1 : i < k => p'[i][1].number < p'[k][1].number
  BY <1>1 DEF Entries
<1>7. \A i \in 0..count-1 : p'[i][2].comment = (Len(lines'[p'[i][1].number].text) = 1)
  BY <1>1, <1>3 DEF Entries
<1> QED
  BY <1>2, <1>3, <1>4, <1>5, <1>6, <1>7 DEF Entries

\* The end of a line: an entry more if it is complete, and none otherwise.
LEMMA LineEnds ==
  ListInv /\ field # 0 /\ field' = 0 /\ UNCHANGED <<number, lines>>
    /\ (\A i \in 0..count-1 : p'[i] = p[i])
    /\ \/ ~Accepted(line) /\ count' = count
       \/ /\ Accepted(line) /\ count' = count + 1
          /\ \A j \in 1..6 : p'[count][j].number = number
          /\ p'[count][2].comment = (Len(line.text) = 1)
    => Entries'
<1> SUFFICES ASSUME ListInv, field # 0, field' = 0, UNCHANGED <<number, lines>>,
                    \A i \in 0..count-1 : p'[i] = p[i],
                    \/ ~Accepted(line) /\ count' = count
                    \/ /\ Accepted(line) /\ count' = count + 1
                       /\ \A j \in 1..6 : p'[count][j].number = number
                       /\ p'[count][2].comment = (Len(line.text) = 1)
             PROVE  Entries'
  OBVIOUS
<1>1. /\ Entries /\ Done = number - 1 /\ Done' = number
      /\ number \in Nat /\ number > 0 /\ count \in Nat
      /\ line = lines[number]
  BY LinesAssumption DEF ListInv, ListTypes, Done
<1>2. CASE ~Accepted(line) /\ count' = count
  <2>1. \A i \in 0..count-1 : p'[i][1].number \in 1..number
    BY <1>1 DEF Entries
  <2>2. \A n \in 1..number : Accepted(lines[n]) => n \in 1..Done
    BY <1>1, <1>2
  <2>3. \A n \in 1..number : Accepted(lines[n]) => \E i \in 0..count-1 : p'[i][1].number = n
    BY <1>1, <2>2 DEF Entries
  <2>4. /\ \A i \in 0..count-1 : Accepted(lines[p'[i][1].number])
        /\ \A i, k \in 0..count-1 : i < k => p'[i][1].number < p'[k][1].number
    BY <1>1 DEF Entries
  <2>5. NoMixing'
    BY <1>1, <1>2 DEF Entries, NoMixing
  <2>6. \A i \in 0..count-1 : p'[i][2].comment = (Len(lines[p'[i][1].number].text) = 1)
    BY <1>1 DEF Entries
  <2> QED
    BY <1>1, <1>2, <2>1, <2>3, <2>4, <2>5, <2>6 DEF Entries
<1>3. CASE /\ Accepted(line) /\ count' = count + 1
           /\ \A j \in 1..6 : p'[count][j].number = number
           /\ p'[count][2].comment = (Len(line.text) = 1)
  <2>1. \A i \in 0..count : i \in 0..count-1 \/ i = count
    BY <1>1
  <2>2. \A i \in 0..count-1 : p'[i][1].number \in 1..number-1 /\ p'[i][1].number < number
    BY <1>1 DEF Entries
  <2>3. p'[count][1].number = number
    BY <1>3
  <2>4. \A i \in 0..count : p'[i][1].number \in 1..number
    BY <1>1, <2>1, <2>2, <2>3
  <2>5. \A i \in 0..count : Accepted(lines[p'[i][1].number])
    BY <1>1, <1>3, <2>1, <2>3 DEF Entries
  <2>6. \A n \in 1..number : Accepted(lines[n]) => \E i \in 0..count : p'[i][1].number = n
    <3>1. \A n \in 1..number : n \in 1..Done \/ n = number
      BY <1>1
    <3>2. count \in 0..count /\ \A i \in 0..count-1 : i \in 0..count
      BY <1>1
    <3>3. \A n \in 1..Done : Accepted(lines[n]) => \E i \in 0..count-1 : p'[i][1].number = n
      BY <1>1 DEF Entries
    <3> QED
      BY <3>1, <3>2, <3>3, <2>3
  <2>7. \A i, k \in 0..count : i < k => p'[i][1].number < p'[k][1].number
    <3> SUFFICES ASSUME NEW i \in 0..count, NEW k \in 0..count, i < k
                 PROVE  p'[i][1].number < p'[k][1].number
      OBVIOUS
    <3>1. CASE k = count
      BY <3>1, <1>1, <2>2, <2>3
    <3>2. CASE k # count
      BY <3>2, <1>1 DEF Entries
    <3> QED
      BY <3>1, <3>2
  <2>8. \A i \in 0..count : \A j \in 1..6 : p'[i][j].number = p'[i][1].number
    <3>1. \A i \in 0..count-1 : \A j \in 1..6 : p[i][j].number = p[i][1].number
      BY <1>1, FieldNames DEF Entries, NoMixing
    <3>2. \A j \in 1..6 : p'[count][j].number = p'[count][1].number
      BY <1>3, <2>3
    <3> QED
      BY <3>1, <3>2, <2>1
  <2>9. NoMixing'
    BY <1>1, <1>3, <2>8, FieldNames DEF NoMixing
  <2>10. 0..count'-1 = 0..count
    BY <1>1, <1>3
  <2>11. \A i \in 0..count : p'[i][2].comment = (Len(lines[p'[i][1].number].text) = 1)
    <3>1. \A i \in 0..count-1 : p'[i][2].comment = (Len(lines[p'[i][1].number].text) = 1)
      BY <1>1 DEF Entries
    <3> QED
      BY <3>1, <2>1, <2>3, <1>1, <1>3
  <2> QED
    BY <1>1, <2>4, <2>5, <2>6, <2>7, <2>9, <2>10, <2>11 DEF Entries
<1> QED
  BY <1>2, <1>3

\* The parser begins with no line and no entry,
LEMMA ListStarts == ListInit => ListInv
<1> SUFFICES ASSUME ListInit PROVE ListInv
  OBVIOUS
<1>1. <<>> \in Seq(Lines) /\ <<>> \in Seq(Kinds) /\ Len(lines) = 0
  BY EmptySeq DEF ListInit
<1>2. p \in [0..MaxPrograms -> [1..6 -> Origins]]
  <2>1. 0 \in 0..MaxLines
    BY LinesAssumption
  <2>2. "" \in Kinds
    BY DEF Kinds
  <2>3. Unset \in Origins
    BY <2>1, <2>2 DEF Unset, Origins
  <2> QED
    BY <2>3, FieldNames DEF ListInit
<1>3. ListTypes
  BY <1>1, <1>2, LinesAssumption DEF ListInit, ListTypes
<1>4. Progress /\ Entries
  BY DEF ListInit, Progress, Entries, NoMixing, Done
<1> QED
  BY <1>3, <1>4 DEF ListInv

\* and no step of it disturbs what it keeps: a new line,
LEMMA LineBegins == ListInv /\ getline => ListInv'
<1> SUFFICES ASSUME ListInv, getline PROVE ListInv'
  OBVIOUS
<1>1. /\ ListTypes /\ lines \in Seq(Lines) /\ Len(lines) = number /\ number \in Nat
      /\ line' \in Lines /\ MaxLines \in Nat
  BY LinesAssumption DEF ListInv, ListTypes, getline
<1>2. /\ lines' \in Seq(Lines) /\ Len(lines') = number + 1
      /\ lines'[number + 1] = line' /\ \A n \in 1..number : lines'[n] = lines[n]
  BY <1>1 DEF getline
<1>3. line_pos' = line'.text /\ line'.text \in Seq(Kinds)
  BY <1>1, LineTypes DEF getline
<1>4. ListTypes'
  <2>1. number' = number + 1 /\ number' \in 0..MaxLines /\ field' = 1 /\ Room' = Room /\ Room
    BY <1>1 DEF getline, Room
  <2>2. count' \in 0..MaxPrograms /\ p' \in [0..MaxPrograms -> [1..6 -> Origins]]
    BY <1>1 DEF getline, ListTypes
  <2> QED
    BY <2>1, <2>2, <1>1, <1>2, <1>3 DEF ListTypes
<1>5. Progress'
  BY DEF Progress, getline
<1>6. Entries'
  BY <1>1, <1>2, EntriesStay DEF getline, Done
<1> QED
  BY <1>4, <1>5, <1>6 DEF ListInv

\* the name,
LEMMA NameStored == ListInv /\ ParseName => ListInv'
<1> SUFFICES ASSUME ListInv, ParseName PROVE ListInv'
  OBVIOUS
<1>1. /\ ListTypes /\ Progress /\ field = 1 /\ field' = 2 /\ Store(Token)
      /\ UNCHANGED <<number, line, count, lines>>
      /\ line = lines[number] /\ number > 0 /\ number \in Nat
  BY LinesAssumption DEF ListInv, ListTypes, ParseName
<1>2. line \in Lines
  BY <1>1, ElementOfSeq DEF ListTypes
<1>3. line_pos = line.text /\ Token # "long" /\ line.text # <<>>
  BY <1>1, <1>2, LinesAssumption DEF Progress, ParseName
<1>4. Token = line.text[1] /\ Rest = Tail(line.text)
  BY <1>2, <1>3, LineTypes DEF Token, Rest
<1>5. line_pos' = Source(line)
  BY <1>2, <1>3, <1>4, LineTypes DEF ParseName, Source
<1>6. /\ p' \in [0..MaxPrograms -> [1..6 -> Origins]]
      /\ \A i \in 0..count-1 : p'[i] = p[i]
      /\ p'[count][1].number = number
  <2>1. Token \in Kinds /\ field # 0
    BY <1>1, <1>2, <1>4, LineTypes
  <2> QED
    BY <1>1, <2>1, StoreKeeps
<1>7. ListTypes'
  BY <1>1, <1>2, <1>5, <1>6, LineTypes DEF ListTypes, Room
<1>8. Progress'
  <2>1. Source(line)' = Source(line) /\ Len(Source(line)) \in Nat
    BY <1>1, <1>2, LineTypes, LenProperties DEF Source
  <2>2. /\ \A j \in 1..1 : p'[count][j].number = number
        /\ \A j \in 2..1 : p'[count][j].comment = (Len(line.text) = 1)
    BY <1>6
  <2> QED
    BY <2>1, <2>2, <1>1, <1>3, <1>4, <1>5 DEF Progress
<1>9. Entries'
  BY <1>1, <1>6, EntriesStay DEF Done
<1> QED
  BY <1>7, <1>8, <1>9 DEF ListInv

\* a field that is well formed,
LEMMA FieldStored == ListInv /\ ParseField => ListInv'
<1> SUFFICES ASSUME ListInv, ParseField PROVE ListInv'
  OBVIOUS
<1>1. /\ ListTypes /\ Progress /\ Store(Token) /\ field \in Nat /\ number \in Nat
      /\ UNCHANGED <<number, line, count, lines>>
      /\ field > 1 /\ field' = field + 1 /\ Token = Wanted /\ line_pos' = Rest
      /\ line = lines[number] /\ number > 0
  BY LinesAssumption DEF ListInv, ListTypes, ParseField
<1>2. field \in 2..5
  BY FieldNames DEF ListInv, ListTypes, ParseField
<1>3. line \in Lines
  BY <1>1, ElementOfSeq DEF ListTypes
<1>4. /\ Wanted = Needed[field - 1] /\ Wanted # "" /\ Token \in Kinds
  BY <1>1, <1>2, WantedIsNeeded
<1>5. line_pos # <<>>
  BY <1>1, <1>4 DEF Token
<1>6. /\ Token = line_pos[1] /\ Len(line_pos) \in Nat /\ Len(line_pos) > 0
      /\ Rest \in Seq(Kinds) /\ Len(Rest) = Len(line_pos) - 1
      /\ \A i \in 1..Len(Rest) : Rest[i] = line_pos[i + 1]
  BY <1>1, <1>5, Tokens
<1>7. /\ p' \in [0..MaxPrograms -> [1..6 -> Origins]]
      /\ \A i \in 0..count-1 : p'[i] = p[i]
      /\ p'[count][field].number = number
      /\ p'[count][field].comment = InComment
      /\ \A j \in 1..6 \ {field} : p'[count][j] = p[count][j]
  <2>1. field # 0
    BY <1>2
  <2> QED
    BY <1>1, <1>4, <2>1, StoreKeeps
<1>8. ListTypes'
  BY <1>1, <1>2, <1>6, <1>7 DEF ListTypes, Room
<1>9. Progress'
  <2>1. Source(line)' = Source(line) /\ Len(Source(line)) \in Nat
    BY <1>1, <1>3, LineTypes, LenProperties DEF Source
  <2>2. /\ line.text[1] # "long"
        /\ \A j \in 1..field-1 : p[count][j].number = number
        /\ \A j \in 2..field-1 : p[count][j].comment = (Len(line.text) = 1)
        /\ Len(Source(line)) = Len(line_pos) + field - 2
        /\ \A i \in 1..field-2 : Source(line)[i] = Needed[i]
        /\ \A i \in 1..Len(line_pos) : line_pos[i] = Source(line)[i + field - 2]
    BY <1>1 DEF Progress
  <2>3. \A j \in 1..field : p'[count][j].number = number
    BY <1>2, <1>7, <2>2
  <2>4. Source(line)[field - 1] = Needed[field - 1]
    <3>1. line_pos[1] = Source(line)[1 + field - 2] /\ 1 + field - 2 = field - 1
      BY <1>2, <1>6, <2>2
    <3> QED
      BY <3>1, <1>1, <1>4, <1>6
  <2>5. \A i \in 1..field-1 : Source(line)[i] = Needed[i]
    BY <1>2, <2>2, <2>4
  <2>6. \A i \in 1..Len(Rest) : Rest[i] = Source(line)[i + field - 1]
    <3> SUFFICES ASSUME NEW i \in 1..Len(Rest)
                 PROVE  Rest[i] = Source(line)[i + field - 1]
      OBVIOUS
    <3>1. Rest[i] = line_pos[i + 1] /\ i + 1 \in 1..Len(line_pos)
      BY <1>6
    <3>2. line_pos[i + 1] = Source(line)[(i + 1) + field - 2]
      BY <3>1, <2>2
    <3>3. (i + 1) + field - 2 = i + field - 1
      BY <1>2
    <3> QED
      BY <3>1, <3>2, <3>3
  <2>7. /\ Len(Source(line)) = Len(Rest) + field' - 2
        /\ field' - 1 = field /\ field' - 2 = field - 1 /\ field' > 1
        /\ \A i \in Nat : i + field' - 2 = i + field - 1
    BY <1>1, <1>2, <1>6, <2>1, <2>2
  <2>8. \A i \in 1..Len(Rest) : Rest[i] = Source(line)[i + field' - 2]
    BY <2>6, <2>7
  <2>9. \A j \in 1..field'-1 : p'[count'][j].number = number'
    BY <1>1, <2>3, <2>7
  <2>10. \A i \in 1..field'-2 : Source(line')[i] = Needed[i]
    BY <1>1, <2>5, <2>7
  <2>11. \A i \in 1..Len(line_pos') : line_pos'[i] = Source(line')[i + field' - 2]
    BY <1>1, <2>8
  <2>12. Len(Source(line')) = Len(line_pos') + field' - 2 /\ line'.text[1] # "long"
    BY <1>1, <2>2, <2>7
  <2>13. \A j \in 2..field : p'[count][j].comment = (Len(line.text) = 1)
    BY <1>2, <1>7, <2>2 DEF InComment
  <2>14. \A j \in 2..field'-1 : p'[count'][j].comment = (Len(line'.text) = 1)
    BY <1>1, <2>7, <2>13
  <2> QED
    BY <2>9, <2>10, <2>11, <2>12, <2>14, <1>2, <1>1 DEF Progress
<1>10. Entries'
  BY <1>1, <1>7, EntriesStay DEF Done
<1> QED
  BY <1>8, <1>9, <1>10 DEF ListInv

\* one that is not, where the line is not complete,
LEMMA LineAbandoned == ListInv /\ (ParseFails \/ NameTooLong) => ListInv'
<1> SUFFICES ASSUME ListInv, ParseFails \/ NameTooLong PROVE ListInv'
  OBVIOUS
<1>1. /\ ListTypes /\ Progress /\ field' = 0 /\ field # 0
      /\ UNCHANGED <<number, line, count, lines, line_pos>>
      /\ line = lines[number] /\ number > 0 /\ number \in Nat
  BY LinesAssumption DEF ListInv, ListTypes, ParseFails, NameTooLong
<1>2. line \in Lines
  BY <1>1, ElementOfSeq DEF ListTypes
<1>3. /\ ~Accepted(line)
      /\ p' \in [0..MaxPrograms -> [1..6 -> Origins]]
      /\ \A i \in 0..count-1 : p'[i] = p[i]
  <2>1. CASE ParseFails
    <3>1. field \in 2..5 /\ Token # Wanted /\ Store(Token)
      BY <2>1, FieldNames DEF ListInv, ListTypes, ParseFails
    <3>2. Wanted = Needed[field - 1]
      BY <3>1, WantedIsNeeded
    <3>3. /\ Len(Source(line)) = Len(line_pos) + field - 2
          /\ \A i \in 1..Len(line_pos) : line_pos[i] = Source(line)[i + field - 2]
      BY <1>1, <3>1 DEF Progress
    <3>4. ASSUME line_pos = <<>> PROVE ~Accepted(line)
      <4>1. Len(line_pos) = 0
        BY <3>4, EmptySeq
      <4>2. Len(Source(line)) < 4
        BY <3>1, <3>3, <4>1
      <4> QED
        BY <4>2, <1>2, AcceptedBySource
    <3>5. ASSUME line_pos # <<>> PROVE ~Accepted(line)
      <4>1. Len(line_pos) \in Nat /\ Len(line_pos) > 0 /\ Token = line_pos[1]
        BY <3>5, <1>1, Tokens
      <4>2. Source(line)[field - 1] # Needed[field - 1] /\ field - 1 \in 1..4
        <5>1. line_pos[1] = Source(line)[1 + field - 2] /\ 1 + field - 2 = field - 1
          BY <3>1, <3>3, <4>1
        <5> QED
          BY <5>1, <4>1, <3>1, <3>2
      <4> QED
        BY <4>2, <1>2, AcceptedBySource
    <3>6. Token \in Kinds
      BY <1>1, Tokens
    <3> QED
      BY <3>1, <3>4, <3>5, <3>6, <1>1, StoreKeeps
  <2>2. CASE NameTooLong
    <3>1. field = 1 /\ Token = "long" /\ p' = p
      BY <2>2 DEF NameTooLong
    <3>2. line_pos = line.text /\ line.text # <<>>
      BY <1>1, <1>2, <3>1, LinesAssumption DEF Progress
    <3>3. line.text[1] = "long"
      BY <1>2, <3>1, <3>2, LineTypes DEF Token
    <3> QED
      BY <1>1, <1>2, <3>1, <3>3, AcceptedBySource DEF ListTypes
  <2> QED
    BY <2>1, <2>2
<1>4. ListTypes' /\ Progress'
  BY <1>1, <1>3 DEF ListTypes, Progress
<1>5. Entries'
  BY <1>1, <1>3, LineEnds
<1> QED
  BY <1>4, <1>5 DEF ListInv

\* and the last field.
LEMMA EntryDone == ListInv /\ ParseServiceId => ListInv'
<1> SUFFICES ASSUME ListInv, ParseServiceId PROVE ListInv'
  OBVIOUS
<1>1. /\ ListTypes /\ Progress /\ field = 6 /\ field' = 0 /\ field # 0
      /\ UNCHANGED <<number, line, lines>> /\ count' = count + 1 /\ line_pos' = Rest
      /\ line = lines[number] /\ number > 0 /\ number \in Nat
  <2>1. ListTypes /\ Progress
    BY DEF ListInv
  <2>2. field = 6
    <3>1. field > 1 /\ Fields[field] = "service_id"
      BY DEF ParseServiceId
    <3>2. field \in 0..6
      BY <2>1 DEF ListTypes
    <3>3. field \in 1..6
      BY <3>1, <3>2
    <3> QED
      BY <3>1, <3>3, FieldNames
  <2>3. line = lines[number] /\ number > 0 /\ number \in Nat
    BY <2>1, <2>2, LinesAssumption DEF ListTypes
  <2>4. /\ field' = 0 /\ UNCHANGED <<number, line, lines>>
        /\ count' = count + 1 /\ line_pos' = Rest
    BY DEF ParseServiceId
  <2> QED
    BY <2>1, <2>2, <2>3, <2>4
<1>2. line \in Lines
  BY <1>1, ElementOfSeq DEF ListTypes
<1>3. \E kind \in Kinds : Store(kind)
  BY DEF ParseServiceId, Kinds
<1>4. PICK kind \in Kinds : Store(kind)
  BY <1>3
<1>5. /\ p' \in [0..MaxPrograms -> [1..6 -> Origins]]
      /\ \A i \in 0..count-1 : p'[i] = p[i]
      /\ p'[count][6].number = number
      /\ \A j \in 1..6 \ {6} : p'[count][j] = p[count][j]
  BY <1>1, <1>4, StoreKeeps
<1>6. Accepted(line)
  <2>1. /\ line.text[1] # "long"
        /\ Len(Source(line)) = Len(line_pos) + 6 - 2
        /\ \A i \in 1..4 : Source(line)[i] = Needed[i]
    BY <1>1 DEF Progress
  <2>2. Len(line_pos) \in Nat
    BY <1>1, Tokens
  <2> QED
    BY <2>1, <2>2, <1>2, AcceptedBySource
<1>7. \A j \in 1..6 : p'[count][j].number = number
  <2>1. \A j \in 1..5 : p[count][j].number = number
    BY <1>1 DEF Progress
  <2> QED
    BY <1>5, <2>1
<1>8. p'[count][2].comment = (Len(line.text) = 1)
  <2>1. p[count][2].comment = (Len(line.text) = 1)
    BY <1>1 DEF Progress
  <2> QED
    BY <1>5, <2>1
<1>9. ListTypes'
  <2>1. count' \in 0..MaxPrograms
    BY <1>1, LinesAssumption DEF ListTypes, Room
  <2>2. line_pos' \in Seq(Kinds)
    BY <1>1, Tokens
  <2> QED
    BY <1>1, <1>5, <2>1, <2>2 DEF ListTypes
<1>10. Progress'
  BY <1>1 DEF Progress
<1>11. Entries'
  BY <1>1, <1>5, <1>6, <1>7, <1>8, LineEnds
<1> QED
  BY <1>9, <1>10, <1>11 DEF ListInv

LEMMA ParseKeeps == ListInv /\ ParseList => ListInv'
BY LineBegins, NameStored, FieldStored, LineAbandoned, EntryDone
   DEF ParseList, dvbcfg_parse_string

\* The entries before one are just the lines before its line that make one.
LEMMA EntryCounts ==
  ASSUME ListInv, NEW i \in 0..count-1
  PROVE  Cardinality({k \in 1..p[i][1].number : Accepted(lines[k])}) = i + 1
<1> DEFINE n == p[i][1].number
           S == {k \in 1..n : Accepted(lines[k])}
           f == [x \in 1..i+1 |-> p[x-1][1].number]
<1>1. /\ Entries /\ count \in Nat /\ n \in 1..Done /\ Done \in Int /\ i \in Nat
  <2>1. ListTypes /\ Entries
    BY DEF ListInv
  <2>2. count \in Nat /\ number \in Nat
    BY <2>1, LinesAssumption DEF ListTypes
  <2>3. Done \in Int
    BY <2>2 DEF Done
  <2>4. n \in 1..Done
    BY <2>1 DEF Entries
  <2>5. i \in Nat
    BY <2>2
  <2> QED
    BY <2>1, <2>2, <2>3, <2>4, <2>5
<1>2. \A x \in 0..i : p[x][1].number \in S
  <2>1. \A x \in 0..i : x \in 0..count-1 /\ (x = i \/ x < i)
    BY <1>1
  <2>2. \A x \in 0..i : p[x][1].number \in 1..n
    BY <1>1, <2>1 DEF Entries
  <2> QED
    BY <1>1, <2>1, <2>2 DEF Entries
<1>3. f \in [1..i+1 -> S]
  <2>1. \A x \in 1..i+1 : x - 1 \in 0..i
    BY <1>1
  <2> QED
    BY <1>2, <2>1
<1>4. \A x, y \in 1..i+1 : f[x] = f[y] => x = y
  <2> SUFFICES ASSUME NEW x \in 1..i+1, NEW y \in 1..i+1, x # y PROVE f[x] # f[y]
    OBVIOUS
  <2>1. x - 1 \in 0..count-1 /\ y - 1 \in 0..count-1
    BY <1>1
  <2>2. f[x] = p[x-1][1].number /\ f[y] = p[y-1][1].number
    OBVIOUS
  <2>3. f[x] \in Int /\ f[y] \in Int
    BY <1>1, <2>1, <2>2 DEF Entries
  <2>4. x - 1 < y - 1 => f[x] < f[y]
    BY <1>1, <2>1, <2>2 DEF Entries
  <2>5. y - 1 < x - 1 => f[y] < f[x]
    BY <1>1, <2>1, <2>2 DEF Entries
  <2> HIDE DEF f
  <2> QED
    BY <1>1, <2>3, <2>4, <2>5
<1>5. \A k \in S : \E x \in 1..i+1 : f[x] = k
  <2> SUFFICES ASSUME NEW k \in S PROVE \E x \in 1..i+1 : f[x] = k
    OBVIOUS
  <2>1. k \in 1..Done /\ Accepted(lines[k]) /\ k <= n
    BY <1>1
  <2>2. PICK x \in 0..count-1 : p[x][1].number = k
    BY <1>1, <2>1 DEF Entries
  <2>3. ~(i < x)
    BY <1>1, <2>1, <2>2 DEF Entries
  <2>4. x + 1 \in 1..i+1 /\ (x + 1) - 1 = x
    BY <1>1, <2>3
  <2> QED
    BY <2>2, <2>4
<1> HIDE DEF f, S
<1>6. f \in Bijection(1..i+1, S)
  BY <1>3, <1>4, <1>5, Fun_IsBij
<1>7. ExistsBijection(1..i+1, S) /\ i + 1 \in Nat
  BY <1>1, <1>6 DEF ExistsBijection
<1>8. Cardinality(S) = i + 1
  BY <1>7, FS_CountingElements
<1> QED
  BY <1>8 DEF S

\* A complete line makes an entry; an entry that is not made of a comment is that
\* of a complete line.
LEMMA CompleteAccepted ==
  ListInv =>
    /\ \A n \in 1..number : Complete(lines[n]) => Accepted(lines[n])
    /\ \A i \in 0..count-1 : Uncommented(i) => Complete(lines[p[i][1].number])
<1> SUFFICES ASSUME ListInv
             PROVE  /\ \A n \in 1..number : Complete(lines[n]) => Accepted(lines[n])
                    /\ \A i \in 0..count-1 :
                         Uncommented(i) => Complete(lines[p[i][1].number])
  OBVIOUS
<1>1. \A l \in Lines : Complete(l) <=> Accepted(l) /\ Len(l.text) # 1
  <2> SUFFICES ASSUME NEW l \in Lines
               PROVE  Complete(l) <=> Accepted(l) /\ Len(l.text) # 1
    OBVIOUS
  <2>1. CASE Len(l.text) = 1
    <3>1. Tail(l.text) = <<>>
      BY <2>1, LineTypes
    <3>2. Len(Tail(l.text)) = 0
      BY <3>1, EmptySeq
    <3> QED
      BY <2>1, <3>2 DEF Complete, Good
  <2>2. CASE Len(l.text) # 1
    BY <2>2 DEF Complete, Accepted, Source
  <2> QED
    BY <2>1, <2>2
<1>2. \A n \in 1..number : lines[n] \in Lines
  BY ElementOfSeq DEF ListInv, ListTypes
<1>3. ASSUME NEW i \in 0..count-1, Uncommented(i)
      PROVE  Complete(lines[p[i][1].number])
  <2>1. p[i][2].comment = FALSE
    BY <1>3, FieldNames DEF Uncommented
  <2>2. /\ p[i][2].comment = (Len(lines[p[i][1].number].text) = 1)
        /\ Accepted(lines[p[i][1].number]) /\ p[i][1].number \in 1..Done
    BY DEF ListInv, Entries
  <2>3. p[i][1].number \in 1..number
    BY <2>2, LinesAssumption DEF ListInv, ListTypes, Done
  <2> QED
    BY <2>1, <2>2, <2>3, <1>1, <1>2
<1> QED
  BY <1>1, <1>2, <1>3
-----------------------------------------------------------------------------
(***************************************************************************)
(* main.                                                                   *)
(***************************************************************************)
LEMMA ListUntouched == ListInv /\ UNCHANGED listVars => ListInv'
<1> SUFFICES ASSUME ListInv, UNCHANGED listVars PROVE ListInv'
  OBVIOUS
<1> USE DEF listVars
<1>1. ListTypes'
  BY DEF ListInv, ListTypes, Room
<1>2. Progress'
  BY DEF ListInv, Progress
<1>3. Entries'
  BY DEF ListInv, Entries, NoMixing, Done
<1> QED
  BY <1>1, <1>2, <1>3 DEF ListInv

\* What later calls may do to the entry.
LEMMA EntryLeft ==
  ASSUME entry \in {"none", "line", "garbage"}, entry' \in Left(entry)
  PROVE  /\ entry = "none" => entry' = "none"
         /\ entry # "none" => entry' \in {"line", "garbage"}
         /\ entry' = "line" => entry = "line"
         /\ entry' = "garbage" => entry = "garbage" \/ channel \in Reached
BY DEF Left

LEMMA MainStarts == Init => MainInv
BY DEF Init, MainInv, MainTypeOK, Sequence, Selected, Listed, Opened, Filtered,
       Tuned, Equipped, Starting, ListInit


\* The process ends, with nothing else changed.
LEMMA EndKeeps ==
  MainInv /\ status' \in {"ended", "crashed"}
    /\ (failed' = failed \/ (failed' = failed \cup {pc} /\ pc \notin {"add_audio", "add_pat"}))
    /\ UNCHANGED <<pc, channel, entry, device, pids, decoder, output, client,
                   threads, listVars>> => MainInv'
<1> SUFFICES ASSUME MainInv, status' \in {"ended", "crashed"},
                    failed' = failed \/ (failed' = failed \cup {pc}
                                          /\ pc \notin {"add_audio", "add_pat"}),
                    UNCHANGED <<pc, channel, entry, device, pids, decoder, output,
                                client, threads, listVars>>
             PROVE  MainInv'
  OBVIOUS
<1>1. MainTypeOK'
  BY DEF MainInv, MainTypeOK
<1>2. Sequence'
  BY DEF MainInv, Sequence, listVars
<1>3. Selected'
  <2>1. /\ "add_audio" \in failed' <=> "add_audio" \in failed
        /\ "add_pat" \in failed' <=> "add_pat" \in failed
    OBVIOUS
  <2>2. Sound' = Sound /\ Tables' = Tables /\ Streams' = Streams
    BY <2>1 DEF Sound, Tables, Streams
  <2> QED
    BY <2>1, <2>2 DEF MainInv, Selected, listVars
<1> QED
  BY <1>1, <1>2, <1>3 DEF MainInv

\* The next call. What it leaves of the entry is as EntryLeft says; what it sets
\* is what there must be before the call after it.
LEMMA CallKeeps ==
  ASSUME MainInv, NEW from, NEW to \in Listed, Call(from, to), from # "rtp", from # "parse",
         entry' \in Left(entry), MainTypeOK'
  PROVE  /\ from \in Listed
         /\ field' = 0 /\ entry' # "none"
         /\ entry' = "line" => entry = "line"
         /\ entry' = "garbage" => channel' >= count' \/ channel' \in Reached
<1>1. /\ pc = from /\ pc \in {"rtp", "parse"} \cup Listed
      /\ UNCHANGED <<channel, field, count>>
  BY DEF MainInv, Sequence, Call, listVars
<1>2. from \in Listed
  BY <1>1
<1>3. entry # "none" /\ field = 0 /\ entry \in {"none", "line", "garbage"}
  BY <1>1, <1>2 DEF MainInv, MainTypeOK, Sequence
<1>4. entry = "garbage" => channel >= count \/ channel \in Reached
  BY DEF MainInv, Selected
<1> QED
  BY <1>1, <1>2, <1>3, <1>4, EntryLeft

\* A call after which nothing new is there but what the calls after it need.
LEMMA CheckedKeeps ==
  ASSUME NEW from, NEW to,
         <<from, to>> \in {<<"buffer", "property">>, <<"property", "filter">>,
                           <<"start", "decoder">>, <<"socket", "accept">>},
         from = "buffer" => device
  PROVE  MainInv /\ Checked(from, to) => MainInv'
<1> SUFFICES ASSUME MainInv, Checked(from, to) PROVE MainInv'
  OBVIOUS
<1>1. CASE Fail(from)
  BY <1>1, EndKeeps DEF Fail
<1>2. CASE Call(from, to) /\ entry' \in Left(entry)
           /\ UNCHANGED <<device, pids, decoder, output, client, threads, failed>>
  <2>1. MainTypeOK'
    BY <1>2 DEF MainInv, MainTypeOK, Call, Left
  <2>2. from # "rtp" /\ from # "parse" /\ to \in Listed
    BY DEF Listed, Opened, Filtered, Tuned, Equipped, Starting
  <2>3. /\ field' = 0 /\ entry' # "none"
        /\ entry' = "line" => entry = "line"
        /\ entry' = "garbage" => channel' >= count' \/ channel' \in Reached
    BY <1>2, <2>1, <2>2, CallKeeps
  <2>4. Sequence'
    BY <1>2, <2>3 DEF MainInv, Sequence, Call, Listed, Opened, Filtered, Tuned, Equipped, Starting
  <2>5. Selected'
    BY <1>2, <2>3 DEF MainInv, Selected, Sound, Tables, Streams, Call, Tuned, Equipped, Starting
  <2> QED
    BY <2>1, <2>4, <2>5 DEF MainInv
<1> QED
  BY <1>1, <1>2 DEF Checked

\* Opening the device, which may fail,
LEMMA OpenKeeps == MainInv /\ dvb_open_device => MainInv'
<1> SUFFICES ASSUME MainInv, dvb_open_device PROVE MainInv'
  OBVIOUS
<1>1. Call("open", "buffer") /\ entry' \in Left(entry)
  BY DEF dvb_open_device
<1>2. MainTypeOK'
  BY <1>1 DEF MainInv, MainTypeOK, Call, Left, dvb_open_device
<1>3. "open" # "rtp" /\ "open" # "parse" /\ "buffer" \in Listed
  BY DEF Listed, Opened, Filtered, Tuned, Equipped, Starting
<1>4. /\ field' = 0 /\ entry' # "none"
      /\ entry' = "line" => entry = "line"
      /\ entry' = "garbage" => channel' >= count' \/ channel' \in Reached
  BY <1>1, <1>2, <1>3, CallKeeps
<1>5. Sequence'
  BY <1>1, <1>4 DEF MainInv, Sequence, Call, Listed, Opened, Filtered, Tuned, Equipped, Starting, dvb_open_device
<1>6. Selected'
  BY <1>1, <1>4 DEF MainInv, Selected, Call, Sound, Tables, Streams, Tuned, Equipped, Starting, dvb_open_device
<1> QED
  BY <1>2, <1>5, <1>6 DEF MainInv

\* the PIDs whose results are overwritten: that of the audio
LEMMA AudioKeeps == MainInv /\ AddAudio => MainInv'
<1> SUFFICES ASSUME MainInv, AddAudio PROVE MainInv'
  OBVIOUS
<1>1. Call("add_audio", "add_pat") /\ entry' \in Left(entry)
  BY DEF AddAudio, AddUnchecked, Pid
<1>2. MainTypeOK'
  BY <1>1 DEF MainInv, MainTypeOK, Call, Left, AddAudio, AddUnchecked, Pid
<1>3. "add_audio" # "rtp" /\ "add_audio" # "parse" /\ "add_pat" \in Listed
  BY DEF Listed, Opened, Filtered, Tuned, Equipped, Starting
<1>4. /\ field' = 0 /\ entry' # "none"
      /\ entry' = "line" => entry = "line"
      /\ entry' = "garbage" => channel' >= count' \/ channel' \in Reached
  BY <1>1, <1>2, <1>3, CallKeeps
<1>5. Sequence'
  BY <1>1, <1>4 DEF MainInv, Sequence, Call, Listed, Opened, Filtered, Tuned, Equipped, Starting, AddAudio, AddUnchecked, Pid
<1>6. Selected'
  BY <1>1, <1>4 DEF MainInv, Selected, Call, Sound, Tables, Streams, Tuned, Equipped, Starting, AddAudio, AddUnchecked, Pid
<1> QED
  BY <1>2, <1>5, <1>6 DEF MainInv

\* and that of the tables,
LEMMA PatKeeps == MainInv /\ AddPat => MainInv'
<1> SUFFICES ASSUME MainInv, AddPat PROVE MainInv'
  OBVIOUS
<1>1. Call("add_pat", "add_pmt") /\ entry' \in Left(entry)
  BY DEF AddPat, AddUnchecked
<1>2. MainTypeOK'
  BY <1>1 DEF MainInv, MainTypeOK, Call, Left, AddPat, AddUnchecked
<1>3. "add_pat" # "rtp" /\ "add_pat" # "parse" /\ "add_pmt" \in Listed
  BY DEF Listed, Opened, Filtered, Tuned, Equipped, Starting
<1>4. /\ field' = 0 /\ entry' # "none"
      /\ entry' = "line" => entry = "line"
      /\ entry' = "garbage" => channel' >= count' \/ channel' \in Reached
  BY <1>1, <1>2, <1>3, CallKeeps
<1>5. Sequence'
  BY <1>1, <1>4 DEF MainInv, Sequence, Call, Listed, Opened, Filtered, Tuned, Equipped, Starting, AddPat, AddUnchecked
<1>6. Selected'
  BY <1>1, <1>4 DEF MainInv, Selected, Call, Sound, Tables, Streams, Tuned, Equipped, Starting, AddPat, AddUnchecked
<1> QED
  BY <1>2, <1>5, <1>6 DEF MainInv

\* the decoder, which may fail, too.
LEMMA DecoderKeeps == MainInv /\ decoder_data_init => MainInv'
<1> SUFFICES ASSUME MainInv, decoder_data_init PROVE MainInv'
  OBVIOUS
<1>1. Call("decoder", "input") /\ entry' \in Left(entry)
  BY DEF decoder_data_init
<1>2. MainTypeOK'
  BY <1>1 DEF MainInv, MainTypeOK, Call, Left, decoder_data_init
<1>3. "decoder" # "rtp" /\ "decoder" # "parse" /\ "input" \in Listed
  BY DEF Listed, Opened, Filtered, Tuned, Equipped, Starting
<1>4. /\ field' = 0 /\ entry' # "none"
      /\ entry' = "line" => entry = "line"
      /\ entry' = "garbage" => channel' >= count' \/ channel' \in Reached
  BY <1>1, <1>2, <1>3, CallKeeps
<1>5. Sequence'
  BY <1>1, <1>4 DEF MainInv, Sequence, Call, Listed, Opened, Filtered, Tuned, Equipped, Starting, decoder_data_init
<1>6. Selected'
  BY <1>1, <1>4 DEF MainInv, Selected, Call, Sound, Tables, Streams, Tuned, Equipped, Starting, decoder_data_init
<1> QED
  BY <1>2, <1>5, <1>6 DEF MainInv

\* The filter for the video,
LEMMA FilterKeeps == MainInv /\ SetFilter => MainInv'
<1> SUFFICES ASSUME MainInv, SetFilter PROVE MainInv'
  OBVIOUS
<1>1. CASE Fail("filter")
  BY <1>1, EndKeeps DEF Fail
<1>2. CASE /\ Call("filter", "add_audio") /\ pids' = {Pid("video")}
           /\ entry' \in Left(entry)
           /\ UNCHANGED <<device, decoder, output, client, threads, failed>>
  <2>1. MainTypeOK'
    BY <1>2 DEF MainInv, MainTypeOK, Call, Left, Pid, Threads
  <2>2. "filter" # "rtp" /\ "filter" # "parse" /\ "add_audio" \in Listed
    BY DEF Listed, Opened, Filtered, Tuned, Equipped, Starting
  <2>3. /\ field' = 0 /\ entry' # "none"
        /\ entry' = "line" => entry = "line"
        /\ entry' = "garbage" => channel' >= count' \/ channel' \in Reached
    BY <1>2, <2>1, <2>2, CallKeeps
  <2>4. Sequence'
    BY <1>2, <2>3 DEF MainInv, Sequence, Call, Threads, Listed, Opened, Filtered, Tuned, Equipped, Starting
  <2>5. Selected'
    BY <1>2, <2>3 DEF MainInv, Selected, Sound, Tables, Streams, Call, Pid, Tuned, Equipped, Starting
  <2> QED
    BY <2>1, <2>4, <2>5 DEF MainInv
<1> QED
  BY <1>1, <1>2 DEF SetFilter

\* the last PID,
LEMMA PmtKeeps == MainInv /\ AddPmt => MainInv'
<1> SUFFICES ASSUME MainInv, AddPmt PROVE MainInv'
  OBVIOUS
<1>1. CASE Fail("add_pmt")
  BY <1>1, EndKeeps DEF Fail
<1>2. CASE /\ Call("add_pmt", "start") /\ pids' = pids \cup {Pid("pmt")}
           /\ entry' \in Left(entry)
           /\ UNCHANGED <<device, decoder, output, client, threads, failed>>
  <2>1. MainTypeOK'
    BY <1>2 DEF MainInv, MainTypeOK, Call, Left, Pid, Threads
  <2>2. "add_pmt" # "rtp" /\ "add_pmt" # "parse" /\ "start" \in Listed
    BY DEF Listed, Opened, Filtered, Tuned, Equipped, Starting
  <2>3. /\ field' = 0 /\ entry' # "none"
        /\ entry' = "line" => entry = "line"
        /\ entry' = "garbage" => channel' >= count' \/ channel' \in Reached
    BY <1>2, <2>1, <2>2, CallKeeps
  <2>4. Sequence'
    BY <1>2, <2>3 DEF MainInv, Sequence, Call, Threads, Listed, Opened, Filtered, Tuned, Equipped, Starting
  <2>5. Selected'
    BY <1>2, <2>3 DEF MainInv, Selected, Sound, Tables, Streams, Call, Pid, Tuned, Equipped, Starting
  <2> QED
    BY <2>1, <2>4, <2>5 DEF MainInv
<1> QED
  BY <1>1, <1>2 DEF AddPmt

\* the decoder's files, which need the decoder,
LEMMA InputKeeps == MainInv /\ SetInput => MainInv'
<1> SUFFICES ASSUME MainInv, SetInput PROVE MainInv'
  OBVIOUS
<1>1. CASE Crash("input")
  BY <1>1, EndKeeps DEF Crash
<1>2. CASE /\ Call("input", "socket") /\ decoder /\ output' \in BOOLEAN
           /\ entry' \in Left(entry)
           /\ UNCHANGED <<device, pids, decoder, client, threads, failed>>
  <2>1. MainTypeOK'
    BY <1>2 DEF MainInv, MainTypeOK, Call, Left, Pid, Threads
  <2>2. "input" # "rtp" /\ "input" # "parse" /\ "socket" \in Listed
    BY DEF Listed, Opened, Filtered, Tuned, Equipped, Starting
  <2>3. /\ field' = 0 /\ entry' # "none"
        /\ entry' = "line" => entry = "line"
        /\ entry' = "garbage" => channel' >= count' \/ channel' \in Reached
    BY <1>2, <2>1, <2>2, CallKeeps
  <2>4. Sequence'
    BY <1>2, <2>3 DEF MainInv, Sequence, Call, Threads, Listed, Opened, Filtered, Tuned, Equipped, Starting
  <2>5. Selected'
    BY <1>2, <2>3 DEF MainInv, Selected, Sound, Tables, Streams, Call, Pid, Tuned, Equipped, Starting
  <2> QED
    BY <2>1, <2>4, <2>5 DEF MainInv
<1> QED
  BY <1>1, <1>2 DEF SetInput

\* the client,
LEMMA ListenerKeeps == MainInv /\ gn_tcp_listener => MainInv'
<1> SUFFICES ASSUME MainInv, gn_tcp_listener PROVE MainInv'
  OBVIOUS
<1>1. CASE Fail("accept")
  BY <1>1, EndKeeps DEF Fail
<1>2. CASE /\ Call("accept", "thread_input") /\ client' = TRUE
           /\ entry' \in Left(entry)
           /\ UNCHANGED <<device, pids, decoder, output, threads, failed>>
  <2>1. MainTypeOK'
    BY <1>2 DEF MainInv, MainTypeOK, Call, Left, Pid, Threads
  <2>2. "accept" # "rtp" /\ "accept" # "parse" /\ "thread_input" \in Listed
    BY DEF Listed, Opened, Filtered, Tuned, Equipped, Starting
  <2>3. /\ field' = 0 /\ entry' # "none"
        /\ entry' = "line" => entry = "line"
        /\ entry' = "garbage" => channel' >= count' \/ channel' \in Reached
    BY <1>2, <2>1, <2>2, CallKeeps
  <2>4. Sequence'
    BY <1>2, <2>3 DEF MainInv, Sequence, Call, Threads, Listed, Opened, Filtered, Tuned, Equipped, Starting
  <2>5. Selected'
    BY <1>2, <2>3 DEF MainInv, Selected, Sound, Tables, Streams, Call, Pid, Tuned, Equipped, Starting
  <2> QED
    BY <2>1, <2>4, <2>5 DEF MainInv
<1> QED
  BY <1>1, <1>2 DEF gn_tcp_listener

\* and the threads, one after the other.
LEMMA CreateKeeps ==
  ASSUME NEW thread, NEW to,
         <<thread, to>> \in {<<"thread_input", "thread_output">>,
                            <<"thread_output", "thread_encoder">>,
                            <<"thread_encoder", "rtp_sender">>, <<"rtp_sender", "enter">>}
  PROVE  MainInv /\ Create(thread, to) => MainInv'
<1> SUFFICES ASSUME MainInv, Create(thread, to) PROVE MainInv'
  OBVIOUS
<1>1. CASE Fail(thread)
  BY <1>1, EndKeeps DEF Fail
<1>2. CASE /\ Call(thread, to) /\ threads' = threads \cup {thread}
           /\ entry' \in Left(entry)
           /\ UNCHANGED <<device, pids, decoder, output, client, failed>>
  <2>1. MainTypeOK'
    BY <1>2 DEF MainInv, MainTypeOK, Call, Left, Pid, Threads
  <2>2. thread # "rtp" /\ thread # "parse" /\ to \in Listed
    BY DEF Listed, Opened, Filtered, Tuned, Equipped, Starting
  <2>3. /\ field' = 0 /\ entry' # "none"
        /\ entry' = "line" => entry = "line"
        /\ entry' = "garbage" => channel' >= count' \/ channel' \in Reached
    BY <1>2, <2>1, <2>2, CallKeeps
  <2>4. Sequence'
    BY <1>2, <2>3 DEF MainInv, Sequence, Call, Threads, Listed, Opened, Filtered, Tuned, Equipped, Starting
  <2>5. Selected'
    BY <1>2, <2>3 DEF MainInv, Selected, Sound, Tables, Streams, Call, Pid, Tuned, Equipped, Starting
  <2> QED
    BY <2>1, <2>4, <2>5 DEF MainInv
<1> QED
  BY <1>1, <1>2 DEF Create

\* Before the list is read there is no entry,
LEMMA ConnectKeeps == MainInv /\ gn_rtp_connect_init => MainInv'
<1> SUFFICES ASSUME MainInv, gn_rtp_connect_init PROVE MainInv'
  OBVIOUS
<1>1. CASE Fail("rtp")
  BY <1>1, EndKeeps DEF Fail
<1>2. CASE /\ Call("rtp", "parse") /\ entry' \in Left(entry)
           /\ UNCHANGED <<device, pids, decoder, output, client, threads, failed>>
  <2>1. entry = "none" /\ entry' = "none"
    BY <1>2, EntryLeft DEF MainInv, MainTypeOK, Sequence, Call
  <2>2. MainTypeOK'
    BY <1>2, <2>1 DEF MainInv, MainTypeOK, Call
  <2>3. Sequence'
    BY <1>2, <2>1 DEF MainInv, Sequence, Call, Listed, Opened, Filtered, Tuned,
                      Equipped, Starting
  <2>4. Selected'
    BY <1>2, <2>1 DEF MainInv, Selected, Call, Tuned, Equipped, Starting
  <2> QED
    BY <2>2, <2>3, <2>4 DEF MainInv
<1> QED
  BY <1>1, <1>2 DEF gn_rtp_connect_init, Checked

\* and when it is read it is a line's, if the list has as many.
LEMMA ParseEndKeeps == MainInv /\ count \in Nat /\ ParseEnd => MainInv'
<1> SUFFICES ASSUME MainInv, count \in Nat, ParseEnd PROVE MainInv'
  OBVIOUS
<1>1. CASE Crash("parse")
  BY <1>1, EndKeeps DEF Crash
<1>2. CASE /\ Parsed /\ Call("parse", "open")
           /\ entry' = IF channel < count THEN "line" ELSE "garbage"
           /\ UNCHANGED <<device, pids, decoder, output, client, threads, failed>>
  <2>1. /\ channel \in Nat /\ field' = 0 /\ pc' = "open"
        /\ UNCHANGED <<channel, count>>
    BY <1>2, ChannelAssumption DEF MainInv, MainTypeOK, Call, Parsed, listVars
  <2>2. entry' \in {"line", "garbage"} /\ (entry' = "garbage" => channel >= count)
    BY <1>2, <2>1
  <2>3. MainTypeOK'
    BY <1>2, <2>2 DEF MainInv, MainTypeOK, Call
  <2>4. Sequence'
    BY <1>2, <2>1, <2>2 DEF MainInv, Sequence, Call, Listed, Opened, Filtered, Tuned,
                            Equipped, Starting
  <2>5. Selected'
    BY <1>2, <2>1, <2>2 DEF MainInv, Selected, Call, Tuned, Equipped, Starting
  <2> QED
    BY <2>3, <2>4, <2>5 DEF MainInv
<1> QED
  BY <1>1, <1>2 DEF ParseEnd

LEMMA ParseStepKeeps == MainInv /\ ParseStep => MainInv'
<1> SUFFICES ASSUME MainInv, ParseStep PROVE MainInv'
  OBVIOUS
<1>1. pc = "parse" /\ UNCHANGED mainVars
  BY DEF ParseStep
<1>2. entry = "none"
  BY <1>1 DEF MainInv, Sequence
<1>3. MainTypeOK'
  BY <1>1 DEF MainInv, MainTypeOK, mainVars
<1>4. Sequence'
  BY <1>1 DEF MainInv, Sequence, mainVars, Listed, Opened, Filtered, Tuned, Equipped, Starting
<1>5. Selected'
  BY <1>1, <1>2 DEF MainInv, Selected, mainVars
<1> QED
  BY <1>3, <1>4, <1>5 DEF MainInv

LEMMA StutterKeeps == MainInv /\ UNCHANGED vars => MainInv'
<1> SUFFICES ASSUME MainInv, UNCHANGED vars PROVE MainInv'
  OBVIOUS
<1>1. MainTypeOK'
  BY DEF MainInv, MainTypeOK, vars, mainVars
<1>2. Sequence'
  BY DEF MainInv, Sequence, vars, listVars, mainVars
<1>3. Selected'
  BY DEF MainInv, Selected, Sound, Tables, Streams, vars, listVars, mainVars
<1> QED
  BY <1>1, <1>2, <1>3 DEF MainInv

\* Every step of main keeps what it kept.
LEMMA MainKeeps == IInv /\ [Next]_vars => MainInv'
<1> SUFFICES ASSUME IInv, [Next]_vars PROVE MainInv'
  OBVIOUS
<1>1. MainInv /\ count \in Nat
  BY LinesAssumption DEF IInv, ListInv, ListTypes
<1>2. CASE gn_rtp_connect_init
  BY <1>1, <1>2, ConnectKeeps
<1>3. CASE dvbcfg_zapchannel_parse
  BY <1>1, <1>3, ParseStepKeeps, ParseEndKeeps DEF dvbcfg_zapchannel_parse
<1>4. CASE dvb_open_device
  BY <1>1, <1>4, OpenKeeps
<1>5. CASE SetBufferSize
  <2>1. CASE device /\ Checked("buffer", "property")
    BY <1>1, <2>1, CheckedKeeps
  <2>2. CASE Crash("buffer")
    BY <1>1, <2>2, EndKeeps DEF Crash
  <2> QED
    BY <1>5, <2>1, <2>2 DEF SetBufferSize
<1>6. CASE dvb_open_chennel
  <2>1. CASE SetProperty
    BY <1>1, <2>1, CheckedKeeps DEF SetProperty
  <2>2. CASE Start
    BY <1>1, <2>2, CheckedKeeps DEF Start
  <2> QED
    BY <1>1, <1>6, <2>1, <2>2, FilterKeeps, AudioKeeps, PatKeeps, PmtKeeps
       DEF dvb_open_chennel
<1>7. CASE decoder_data_init
  BY <1>1, <1>7, DecoderKeeps
<1>8. CASE SetInput
  BY <1>1, <1>8, InputKeeps
<1>9. CASE gn_tcp_init
  BY <1>1, <1>9, CheckedKeeps DEF gn_tcp_init
<1>10. CASE gn_tcp_listener
  BY <1>1, <1>10, ListenerKeeps
<1>11. CASE CreateThreads
  BY <1>1, <1>11, CreateKeeps DEF CreateThreads
<1>12. CASE ts \/ Enter
  BY <1>1, <1>12, EndKeeps DEF ts, Enter
<1>13. CASE Ended \/ UNCHANGED vars
  BY <1>1, <1>13, StutterKeeps DEF Ended
<1> QED
  BY <1>2, <1>3, <1>4, <1>5, <1>6, <1>7, <1>8, <1>9, <1>10, <1>11, <1>12, <1>13
     DEF Next

\* The calls that need a pointer come before the threads.
LEMMA CrashKeeps == MainInv /\ OnlyOutputMissing /\ [Next]_vars => OnlyOutputMissing'
<1> SUFFICES ASSUME MainInv, OnlyOutputMissing, [Next]_vars, status' = "crashed"
             PROVE  threads' # {} => ~output' /\ "thread_encoder" \in threads'
  BY DEF OnlyOutputMissing
<1>1. \/ Crash("parse") \/ Crash("buffer") \/ Crash("input")
      \/ ts
      \/ UNCHANGED <<status, threads, output>>
  <2>1. \A from, to : Checked(from, to) => status' # "crashed"
    BY DEF Checked, Call, Fail, MainInv, MainTypeOK
  <2>2. \A from, to : Call(from, to) \/ Fail(from) => status' # "crashed"
    BY DEF Call, Fail
  <2> QED
    BY <2>1, <2>2 DEF Next, vars, gn_rtp_connect_init, dvbcfg_zapchannel_parse, ParseStep,
         ParseEnd, mainVars, dvb_open_device, SetBufferSize, dvb_open_chennel,
         SetProperty, SetFilter, AddAudio, AddPat, AddUnchecked, AddPmt, Start,
         decoder_data_init, SetInput, gn_tcp_init, gn_tcp_listener, CreateThreads,
         Create, Enter, Ended
<1>2. CASE Crash("parse") \/ Crash("buffer") \/ Crash("input")
  BY <1>2 DEF MainInv, Sequence, Crash
<1>3. CASE ts \/ UNCHANGED <<status, threads, output>>
  BY <1>3 DEF ts, OnlyOutputMissing
<1> QED
  BY <1>1, <1>2, <1>3

\* A call of main leaves the list as it is, but for the one that reads it.
LEMMA ListUntouchedByMain ==
  [Next]_vars => UNCHANGED listVars \/ ParseStep
BY DEF Next, vars, gn_rtp_connect_init, dvbcfg_zapchannel_parse, ParseEnd,
       dvb_open_device, SetBufferSize, dvb_open_chennel, SetProperty, SetFilter,
       AddAudio, AddPat, AddUnchecked, AddPmt, Start, decoder_data_init, SetInput,
       gn_tcp_init, gn_tcp_listener, CreateThreads, Create, ts, Enter, Ended,
       Checked, Call, Fail, Crash
-----------------------------------------------------------------------------
\* The parser's invariant and main's are inductive together.
THEOREM Inductive == Spec => []IInv
<1>1. Init => IInv
  BY ListStarts, MainStarts DEF Init, IInv, OnlyOutputMissing
<1>2. IInv /\ [Next]_vars => IInv'
  BY MainKeeps, CrashKeeps, ListUntouchedByMain, ListUntouched, ParseKeeps DEF IInv, ParseStep
<1> QED
  BY <1>1, <1>2, PTL DEF Spec

\* Every variable has its type; the parser never writes behind the entries of
\* the list (gn_dvb.c:68-170, main.c:336-416).
THEOREM TypeCorrect == Spec => []TypeOK
<1>1. ListInv => ListTypeOK
  BY FieldNames DEF ListInv, ListTypes, ListTypeOK, Room
<1>2. IInv => TypeOK
  BY <1>1 DEF IInv, MainInv, MainTypeOK, TypeOK
<1> QED
  BY <1>2, Inductive, PTL

\* Every complete line of the file makes one entry, in their order, and nothing
\* else does but a line that its comment continues; the fields of an entry are
\* those of one line (gn_dvb.c:70-168).
THEOREM ListOfLines == Spec => []EntriesAreLines
<1>1. ListInv => EntriesAreLines
  <2> SUFFICES ASSUME ListInv PROVE EntriesAreLines
    OBVIOUS
  <2>1. Entries
    BY DEF ListInv
  <2>2. EveryLine
    BY <2>1, CompleteAccepted DEF Entries, Done, EveryLine
  <2> QED
    BY <2>1, <2>2 DEF Entries, EntriesAreLines
<1> QED
  BY <1>1, Inductive, PTL DEF IInv

\* No thread runs without its device, decoder, connection and streams, main waits
\* for the end with all four or not at all, and once they run only a missing
\* output file crashes one (main.c:342-416).
THEOREM Threaded == Spec => []ThreadsComplete
<1>1. MainInv /\ OnlyOutputMissing => ThreadsComplete
  BY DEF MainInv, Sequence, ThreadsComplete, ThreadsEquipped, AllOrNone, Listed, Opened,
         Filtered, Tuned, Equipped, Starting
<1> QED
  BY <1>1, Inductive, PTL DEF IInv

\* What is played is the channel on the line that the user counts to, unless
\* there is no such line, a comment was read as one before it, or its entry was
\* overwritten; a failure that was overlooked costs one stream
\* (gn_dvb.c:61-172, 213-260; main.c:337-361).
THEOREM Tunes == Spec => []TunedToChoice
<1>1. IInv => TunedToChoice
  <2> DEFINE n == p[channel][1].number
             Played == /\ pids = Streams
                       /\ \A j \in 2..Len(Fields) : p[channel][j].number = p[channel][1].number
                       /\ Cardinality({k \in 1..n : Complete(lines[k])}) = channel + 1
             Misread == \E i \in 0..channel : ~Uncommented(i)
  <2>0. Played \/ channel >= count \/ Misread \/ channel \in Reached
           => TunedToChoice
    BY Zenon DEF TunedToChoice
  <2> HIDE DEF Misread
  <2> SUFFICES ASSUME IInv, threads # {}, ~(channel >= count),
                      channel \notin Reached, ~Misread
               PROVE  Played
    <3> HIDE DEF Played
    <3>1. CASE threads = {}
      BY <3>1 DEF TunedToChoice
    <3>2. CASE threads # {}
      BY <3>2, <2>0
    <3> QED
      BY <3>1, <3>2
  <2>1. pc \in Starting
    BY DEF IInv, MainInv, Sequence, Starting
  <2>2. entry = "line" /\ pc \in Tuned
    BY <2>1 DEF IInv, MainInv, MainTypeOK, Sequence, Selected, Listed, Opened, Filtered,
                Tuned, Equipped
  <2>3. pids = Streams
    BY <2>2 DEF IInv, MainInv, Selected
  <2>4. channel \in 0..count-1
    BY ChannelAssumption, LinesAssumption DEF IInv, ListInv, ListTypes, MainInv, MainTypeOK
  <2>5. \A j \in 1..Len(Fields) : p[channel][j].number = p[channel][1].number
    BY <2>4 DEF IInv, ListInv, Entries, NoMixing
  <2>6. Cardinality({k \in 1..p[channel][1].number : Accepted(lines[k])}) = channel + 1
    BY <2>4, EntryCounts DEF IInv
  <2>7. /\ ListInv /\ count \in Nat /\ p[channel][1].number \in 1..Done
        /\ \A k \in 1..p[channel][1].number : k \in 1..number /\ k \in 1..Done
    BY <2>4, LinesAssumption DEF IInv, ListInv, ListTypes, Entries, Done
  <2>8. \A k \in 1..p[channel][1].number : Accepted(lines[k]) => Complete(lines[k])
    <3> SUFFICES ASSUME NEW k \in 1..p[channel][1].number, Accepted(lines[k])
                 PROVE  Complete(lines[k])
      OBVIOUS
    <3>1. PICK i \in 0..count-1 : p[i][1].number = k
      BY <2>7 DEF ListInv, Entries
    <3>2. ~(channel < i)
      BY <2>4, <2>7, <3>1 DEF ListInv, Entries
    <3>3. i \in 0..channel
      BY <2>4, <2>7, <3>2
    <3> QED
      BY <2>7, <3>1, <3>3, CompleteAccepted DEF Misread
  <2>9. {k \in 1..p[channel][1].number : Accepted(lines[k])}
          = {k \in 1..p[channel][1].number : Complete(lines[k])}
    BY <2>7, <2>8, CompleteAccepted
  <2> QED
    BY <2>3, <2>5, <2>6, <2>9, FieldNames
<1> QED
  BY <1>1, Inductive, PTL
=============================================================================

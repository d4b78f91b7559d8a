----------------------------- MODULE ChannelList ----------------------------
(***************************************************************************)
(* The parser of channels.conf: dvbcfg_zapchannel_parse of gn_dvb.c with   *)
(* the functions of dvbcfg_common.c.  It cuts a line at its first hash and *)
(* takes it apart at the colons, field after field, straight into the next *)
(* entry of the list; a field that cannot be read abandons the line, and   *)
(* the entry is used again.                                                *)
(*                                                                         *)
(* A line is its fields before the hash and those after it, each field by  *)
(* its kind.  The frequency stands for itself, one setting for the eight,  *)
(* the two PIDs for themselves.  Every line ends with a newline.           *)
(*                                                                         *)
(* An operator that a comment calls a mutant is not part of the            *)
(* specification: it is the definition after it with a bug in it, which    *)
(* the property named there must notice.                                   *)
(***************************************************************************)
EXTENDS Integers, Sequences

CONSTANTS
  MaxPrograms,  \* MAX_PROGRAM_NUMS
  Lines,        \* the lines that a list is made of
  MaxLines      \* bound: lines in a list

\* A name that its place in the entry does not hold is "long".
Kinds == {"name", "long", "int", "setting", ""}

ASSUME LinesAssumption ==
  /\ MaxPrograms \in Nat \ {0} /\ MaxLines \in Nat
  /\ \A line \in Lines : /\ line.text \in Seq(Kinds) /\ line.text # <<>>
                         /\ line.comment \in Seq(Kinds)

\* The fields of an entry, in the order in which they are parsed.
Fields == <<"name", "frequency", "setting", "video_pid", "audio_pid", "service_id">>

VARIABLES
  number,    \* lines read
  line,      \* the last one
  field,     \* the index in Fields of the next field, 0 between two lines
  line_pos,  \* the fields that *line_pos still points at; none at the end
  p,         \* the entries: where each field comes from
  count,     \* entries that are complete
  lines      \* history: the lines read, in order

listVars == <<number, line, field, line_pos, p, count, lines>>

Unset == [number |-> 0, kind |-> "", comment |-> FALSE]
Empty == [text |-> <<"">>, comment |-> <<>>]

ListInit ==
  /\ number = 0 /\ line = Empty
  /\ field = 0 /\ line_pos = <<>>
  /\ p = [i \in 0..MaxPrograms |-> [j \in 1..Len(Fields) |-> Unset]]
  /\ count = 0
  /\ lines = <<>>
-----------------------------------------------------------------------------
Room == count < MaxPrograms

\* getline, and the cut at the hash.
getline ==
  /\ field = 0
  /\ number < MaxLines
  /\ Room
  /\ line' \in Lines
  /\ number' = number + 1
  /\ lines' = Append(lines, line')
  /\ field' = 1
  /\ line_pos' = line'.text
  /\ UNCHANGED <<p, count>>

Token == IF line_pos = <<>> THEN "" ELSE Head(line_pos)
Rest == IF line_pos = <<>> THEN <<>> ELSE Tail(line_pos)

\* What remains of the line is the comment after its hash.
InComment == field > 1 /\ Len(line.text) = 1

Store(kind) ==
  p' = [p EXCEPT ![count][field] =
          [number |-> number, kind |-> kind, comment |-> InComment]]

\* dvbcfg_parse_string: strchr finds the terminator among the tokens, too, and
\* *text is set behind it: a line that ends with its name goes on after it.
ParseName ==
  /\ field = 1
  /\ Token # "long"
  /\ Store(Token)
  /\ line_pos' = IF Rest = <<>> THEN line.comment ELSE Rest
  /\ field' = 2
  /\ UNCHANGED <<number, line, count, lines>>

NameTooLong ==
  /\ field = 1
  /\ Token = "long"
  /\ field' = 0
  /\ UNCHANGED <<number, line, line_pos, p, count, lines>>

dvbcfg_parse_string == ParseName \/ NameTooLong

Wanted == IF Fields[field] = "setting" THEN "setting" ELSE "int"

\* dvbcfg_parse_int and dvbcfg_parse_setting of a field that is well formed,
ParseField ==
  /\ field > 1 /\ Fields[field] # "service_id"
  /\ Token = Wanted
  /\ Store(Token)
  /\ line_pos' = Rest
  /\ field' = field + 1
  /\ UNCHANGED <<number, line, count, lines>>

\* Mutant (EntriesAreLines): the entry is counted all the same.
ParseFailsCounted ==
  /\ field > 1 /\ Fields[field] # "service_id"
  /\ Token # Wanted
  /\ count' = count + 1
  /\ field' = 0
  /\ UNCHANGED <<number, line, line_pos, p, lines>>

\* and of one that is not.
ParseFails ==
  /\ field > 1 /\ Fields[field] # "service_id"
  /\ Token # Wanted
  /\ Store(Token)
  /\ field' = 0
  /\ UNCHANGED <<number, line, line_pos, count, lines>>

\* "old files don't have a service id": it is set to 0 then.
ParseServiceId ==
  /\ field > 1 /\ Fields[field] = "service_id"
  /\ Store(IF Token = "int" THEN "int" ELSE "")
  /\ count' = count + 1
  /\ field' = 0
  /\ line_pos' = Rest
  /\ UNCHANGED <<number, line, lines>>

\* One step of dvbcfg_zapchannel_parse, and its end with that of the file or
\* of the room in the list.
ParseList ==
  \/ getline \/ dvbcfg_parse_string \/ ParseField \/ ParseFails
  \/ ParseServiceId

Parsed == field = 0 /\ (number = MaxLines \/ ~Room)
-----------------------------------------------------------------------------
(***************************************************************************)
(* Properties.                                                             *)
(***************************************************************************)
ListTypeOK ==
  /\ number \in 0..MaxLines /\ Len(lines) = number
  /\ field \in 0..Len(Fields)
  /\ count \in 0..MaxPrograms
  /\ field # 0 => count < MaxPrograms
  /\ line_pos \in Seq(Kinds)

\* The fields of an entry are those of one line, although a line that is
\* abandoned leaves the fields it got to in the entry.
NoMixing ==
  \A i \in 0..count-1 : \A j \in 1..Len(Fields) : p[i][j].number = p[i][1].number

\* The reader of the list counts on this: what the fields from the second on
\* must be, the service id excepted.
Good(fields) ==
  /\ Len(fields) >= 4
  /\ fields[1] = "int" /\ fields[2] = "setting" /\ fields[3] = "int" /\ fields[4] = "int"

\* What is left of a line with its comment removed is a channel.
Complete(l) == l.text[1] # "long" /\ Good(Tail(l.text))

\* What the comment at gn_dvb.c:74 says, "remove newline and comments (started
\* with hashes)": no field of an entry comes out of a comment.
Uncommented(i) == \A j \in 1..Len(Fields) : ~p[i][j].comment
CommentsRemoved == \A i \in 0..count-1 : Uncommented(i)

\* Every complete line makes one entry, in the order of the lines, and no other
\* line does, except for one that is continued by its comment.
EveryLine ==
  field = 0 =>
    /\ \A i \in 0..count-1 : Uncommented(i) => Complete(lines[p[i][1].number])
    /\ \A n \in 1..number :
         Complete(lines[n]) => \E i \in 0..count-1 : p[i][1].number = n
    /\ \A i, k \in 0..count-1 : i < k => p[i][1].number < p[k][1].number

\* The list is the complete lines of the file, one whole line an entry, and
\* the entries made of comments.
EntriesAreLines == NoMixing /\ EveryLine
=============================================================================

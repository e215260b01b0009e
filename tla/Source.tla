------------------------------- MODULE Source -------------------------------
(***************************************************************************)
(* Source files (source.rs): the bytes of a file become characters that    *)
(* know the bytes they came from, or the file is refused at the byte that  *)
(* is wrong; and a place among the bytes becomes a line and a column.      *)
(* Bytes and characters are numbers, places are zero-based.                *)
(***************************************************************************)
EXTENDS Integers, Sequences
LOCAL INSTANCE FiniteSets
LOCAL INSTANCE FiniteSetsExt
LOCAL INSTANCE SequencesExt

Encodings == {"utf-8", "ascii", "latin-1", "utf-16le", "utf-16be"}

Refused(code, byte) == [ok |-> FALSE, code |-> code, byte |-> byte]

\* The mark that a file may begin with, and how long it is.
Marks ==
  <<[bytes |-> <<239, 187, 191>>, encoding |-> "utf-8"],
    [bytes |-> <<255, 254>>, encoding |-> "utf-16le"],
    [bytes |-> <<254, 255>>, encoding |-> "utf-16be"]>>
Mark(bytes) == SelectSeq(Marks, LAMBDA m : IsPrefix(m.bytes, bytes))
Skipped(bytes) == IF Mark(bytes) = <<>> THEN 0 ELSE Len(Head(Mark(bytes)).bytes)

Chosen(bytes, requested) ==
  IF requested # "auto" THEN requested
  ELSE IF Mark(bytes) = <<>> THEN "utf-8" ELSE Head(Mark(bytes)).encoding

(***************************************************************************)
(* The character that begins at a byte: how wide it is, or why there is    *)
(* none.                                                                   *)
(***************************************************************************)
Wide(ch, width) == [ok |-> TRUE, ch |-> ch, width |-> width]

\* Well-formed UTF-8: the lead byte, the range of the byte after it, and how many follow.
Leads ==
  {[from |-> 194, to |-> 223, low |-> 128, high |-> 191, more |-> 1],
   [from |-> 224, to |-> 224, low |-> 160, high |-> 191, more |-> 2],
   [from |-> 225, to |-> 236, low |-> 128, high |-> 191, more |-> 2],
   [from |-> 237, to |-> 237, low |-> 128, high |-> 159, more |-> 2],
   [from |-> 238, to |-> 239, low |-> 128, high |-> 191, more |-> 2],
   [from |-> 240, to |-> 240, low |-> 144, high |-> 191, more |-> 3],
   [from |-> 241, to |-> 243, low |-> 128, high |-> 191, more |-> 3],
   [from |-> 244, to |-> 244, low |-> 128, high |-> 143, more |-> 3]}
Led(bytes, at, lead) ==
  LET top == bytes[at + 1] - (CASE lead.more = 1 -> 192 [] lead.more = 2 -> 224 [] OTHER -> 240)
  IN Wide(FoldLeft(LAMBDA value, n : value * 64 + bytes[at + n + 1] - 128, top, [n \in 1..lead.more |-> n]),
          lead.more + 1)
Utf8(bytes, at) ==
  LET first == bytes[at + 1]
      leads == {l \in Leads : /\ l.from <= first /\ first <= l.to /\ at + l.more < Len(bytes)
                              /\ l.low <= bytes[at + 2] /\ bytes[at + 2] <= l.high
                              /\ \A n \in 2..l.more : bytes[at + n + 1] \in 128..191}
  IN IF first < 128 THEN Wide(first, 1)
     ELSE IF leads = {} THEN Refused("source-encoding", at) ELSE Led(bytes, at, CHOOSE l \in leads : TRUE)

Byte(bytes, at, ascii) ==
  IF ascii /\ bytes[at + 1] > 127 THEN Refused("source-encoding", at) ELSE Wide(bytes[at + 1], 1)

Word(bytes, at, little) ==
  IF little THEN bytes[at + 1] + 256 * bytes[at + 2] ELSE 256 * bytes[at + 1] + bytes[at + 2]
HighSurrogates == 55296..56319
LowSurrogates == 56320..57343
Utf16(bytes, at, little) ==
  LET first == Word(bytes, at, little)
  IN IF first \notin HighSurrogates
     THEN IF first \in LowSurrogates THEN Refused("source-encoding", at) ELSE Wide(first, 2)
     ELSE IF at + 2 = Len(bytes) \/ Word(bytes, at + 2, little) \notin LowSurrogates
          THEN Refused("source-encoding", at)
     ELSE Wide(65536 + (first - 55296) * 1024 + Word(bytes, at + 2, little) - 56320, 4)

Scalar(bytes, at, encoding) ==
  CASE encoding = "utf-8" -> Utf8(bytes, at)
    [] encoding \in {"ascii", "latin-1"} -> Byte(bytes, at, encoding = "ascii")
    [] OTHER -> Utf16(bytes, at, encoding = "utf-16le")

(***************************************************************************)
(* The whole file.  UTF-8 is checked before any character is looked at;    *)
(* the other encodings fail at whatever comes first.                       *)
(***************************************************************************)
RECURSIVE Units(_, _, _, _)
Units(bytes, encoding, at, units) ==
  LET c == Scalar(bytes, at, encoding)
  IN IF at = Len(bytes) THEN [ok |-> TRUE, units |-> units]
     ELSE IF ~c.ok THEN [ok |-> FALSE, units |-> units, byte |-> c.byte]
     ELSE Units(bytes, encoding, at + c.width,
                Append(units, [ch |-> c.ch, start |-> at, end |-> at + c.width]))

CR == 13
LF == 10
Lines(units, skip) ==
  {skip} \cup {units[n].end : n \in {m \in DOMAIN units :
     /\ units[m].ch \in {CR, LF}
     /\ ~(units[m].ch = CR /\ m < Len(units) /\ units[m + 1].ch = LF)}}

\* What was read, unless something in it is wrong.
Sound(read, encoding, skip) ==
  LET nul == SelectSeq(read.units, LAMBDA u : u.ch = 0)
  IN IF ~read.ok /\ (encoding = "utf-8" \/ nul = <<>>) THEN Refused("source-encoding", read.byte)
     ELSE IF nul # <<>> THEN Refused("source-nul", Head(nul).start)
     ELSE [ok |-> TRUE, units |-> read.units, lines |-> Lines(read.units, skip)]

decode(bytes, requested) ==
  LET encoding == Chosen(bytes, requested)
      skip == Skipped(bytes)
  IN IF Mark(bytes) # <<>> /\ Head(Mark(bytes)).encoding # encoding THEN Refused("source-bom", 0)
     ELSE IF encoding \in {"utf-16le", "utf-16be"} /\ (Len(bytes) - skip) % 2 # 0
          THEN Refused("source-encoding", Len(bytes) - 1)
     ELSE Sound(Units(bytes, encoding, skip, <<>>), encoding, skip)

\* One-based line, and column in bytes.
location(source, byte) ==
  LET before == {start \in source.lines : start <= byte}
  IN IF before = {} THEN <<1, 1>> ELSE <<Cardinality(before), byte - Max(before) + 1>>

(***************************************************************************)
(* Reading: a file longer than the budget is refused, and a file that      *)
(* begins with a charset directive names its own encoding.  charset is     *)
(* that name, "" for none and "bare" for one that is not in quotes.        *)
(***************************************************************************)
Named(charset) ==
  CASE charset = "us-ascii" -> "ascii" [] charset = "latin1" -> "latin-1" [] OTHER -> charset

read_options(file, requested, limit, declared) ==
  IF Len(file.bytes) > limit THEN Refused("source-limit", limit)
  ELSE IF ~declared \/ file.charset = "" THEN decode(file.bytes, requested)
  ELSE IF Named(file.charset) \notin Encodings \cup {"auto"} THEN Refused("source-encoding", 0)
  ELSE decode(file.bytes, Named(file.charset))
=============================================================================

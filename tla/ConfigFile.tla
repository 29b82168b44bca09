----------------------------- MODULE ConfigFile -----------------------------
(***************************************************************************)
(* ConfigStore with the text of /config.bin and the parser that reads it.  *)
(* config_save_streaming writes one object, its items sorted by key,       *)
(*     {"key":{"type":6,"value":"..."},...,"__crc32__":...}                *)
(* and escapes nothing; config_read_streaming reads 256 bytes at a time    *)
(* into a parser that stops wherever a chunk ends and goes on with the     *)
(* next.  ConfigStore says which files can be read back; this module shows *)
(* it of the parser, wherever the chunks end.                              *)
(*                                                                         *)
(* A text is a sequence of symbols: the punctuation, a key, a field, a     *)
(* number, or a byte of a string.                                          *)
(***************************************************************************)
EXTENDS ConfigStore, SequencesExt, FiniteSetsExt

CONSTANTS
  Bytes,         \* the bytes of the saved sensitivities, and of their absence
  Chunks         \* lengths a read may return; 256 bytes in the code

ASSUME ChunksAssumption == Chunks \subseteq Nat \ {0} /\ 1 \in Chunks

VARIABLE parser  \* [state, buf, key, parsed, waiting, pos]

Q       == "\""
Blank   == {" "}
Ordered == <<"physical_keyboards", "touch_devices", "touch_response_delay">>

\* two closing braces among the bytes of a string end the object around it, and a
\* file that ends before its checksum is taken as it is: outside of this model
ASSUME BytesAssumption ==
  /\ DOMAIN Bytes = Value \cup {None} /\ Bytes[None] = <<>>
  /\ \A v \in DOMAIN Bytes : \A i \in 1..(Len(Bytes[v]) - 1) :
       ~(Bytes[v][i] = "}" /\ Bytes[v][i + 1] = "}")

-----------------------------------------------------------------------------
(* Writing. *)
Number(n) == <<ToString(n)>>
Quote(s)  == <<Q>> \o s \o <<Q>>

\* the runtime map of a content: each key with its type, its value and its range
StringItem(s)   == [type |-> "6", text |-> s, min |-> <<>>, max |-> <<>>]
ByteItem(n)     == [type |-> "2", text |-> Number(n), min |-> Number(0), max |-> Number(100)]
AsMap(c) == [physical_keyboards   |-> StringItem(Number(c.keys)),
             touch_devices        |-> StringItem(Bytes[c.sens]),
             touch_response_delay |-> ByteItem(c.value)]

FieldText(f, s) == <<",">> \o Quote(<<f>>) \o <<":">> \o Quote(s)

SerializeConfigValue(v) ==
  <<"{">> \o Quote(<<"type">>) \o <<":", v.type>> \o FieldText("value", v.text)
    \o (IF v.min = <<>> THEN <<>> ELSE FieldText("min", v.min) \o FieldText("max", v.max))
    \o <<"}">>

\* the items of a map, sorted by key: what the checksum is computed of
CrcText(map) ==
  LET known == SelectSeq(Ordered, LAMBDA k : k \in DOMAIN map)
  IN  FlattenSeq([i \in 1..Len(known) |->
        Quote(<<known[i]>>) \o <<":">> \o SerializeConfigValue(map[known[i]]) \o <<",">>])

\* "#" stands for the digits of the checksum of the items before it
FileText(c) ==
  <<"{">> \o CrcText(AsMap(c)) \o Quote(<<"__crc32__">>) \o <<":", "#", "}">>

-----------------------------------------------------------------------------
(* The parser. *)
Closed == [state |-> "CLOSED", buf |-> <<>>, key |-> <<>>, parsed |-> <<>>,
           waiting |-> TRUE, pos |-> 0]

Find(s, c, from) ==       \* string::find; 0 for npos
  LET at == {i \in from..Len(s) : s[i] = c} IN IF at = {} THEN 0 ELSE Min(at)

From(s, i) == SubSeq(s, i, Len(s))

SkipWhitespace(s) ==
  LET at == {i \in 1..Len(s) : s[i] \notin Blank} IN IF at = {} THEN <<>> ELSE From(s, Min(at))

ChunkEnd(s) ==             \* mutant: an object that is not complete ends with its chunk
  IF Find(s, "}", 1) = 0 THEN Len(s) ELSE Find(s, "}", 1)

\* the end of the object s starts with: where its braces balance, inside strings too
ObjectEnd(s) ==
  LET braces(c, i) == Cardinality({k \in 1..i : s[k] = c})
      at == {i \in 1..Len(s) : braces("{", i) = braces("}", i)}
  IN  IF at = {} THEN 0 ELSE Min(at)

SimpleEnd(s) == IF Find(s, ",", 1) # 0 THEN Find(s, ",", 1) - 1
                ELSE Find(s, "}", 1) - 1

Parsing(state) ==
  /\ pc = "read" /\ parser.state = state /\ ~parser.waiting
  /\ SkipWhitespace(parser.buf) # <<>>
  /\ UNCHANGED vars

Wait == parser' = [parser EXCEPT !.waiting = TRUE]

ExpectObjectStart ==
  /\ Parsing("EXPECT_OBJECT_START")
  /\ LET b == SkipWhitespace(parser.buf)
     IN  parser' = [parser EXCEPT !.buf = Tail(b),
                      !.state = IF Head(b) = "{" THEN "EXPECT_KEY" ELSE @]

ExpectKey ==
  /\ Parsing("EXPECT_KEY")
  /\ LET b     == SkipWhitespace(parser.buf)
         start == Find(b, Q, 1)
         end   == Find(b, Q, start + 1)
     IN  IF Head(b) = "}"
         THEN parser' = [parser EXCEPT !.state = "COMPLETE", !.buf = Tail(b)]
         ELSE IF start = 0 \/ end = 0 THEN Wait
         ELSE parser' = [parser EXCEPT !.state = "EXPECT_COLON", !.buf = From(b, end + 1),
                           !.key = SubSeq(b, start + 1, end - 1)]

ExpectColon ==
  /\ Parsing("EXPECT_COLON")
  /\ LET b == SkipWhitespace(parser.buf)
     IN  IF Head(b) # ":" THEN Wait
         ELSE parser' = [parser EXCEPT !.state = "EXPECT_VALUE", !.buf = Tail(b)]

ExpectValue ==
  /\ Parsing("EXPECT_VALUE")
  /\ LET b   == SkipWhitespace(parser.buf)
         end == IF Head(b) = "{" THEN ObjectEnd(b) ELSE SimpleEnd(b)
     IN  IF end <= 0 THEN Wait
         ELSE parser' = [parser EXCEPT !.state = "EXPECT_COMMA_OR_END", !.key = <<>>,
                           !.buf = From(b, end + 1),
                           !.parsed = (parser.key :> SubSeq(b, 1, end)) @@ @]

ExpectCommaOrEnd ==
  /\ Parsing("EXPECT_COMMA_OR_END")
  /\ LET b == SkipWhitespace(parser.buf)
     IN  IF Head(b) \notin {",", "}"} THEN Wait
         ELSE parser' = [parser EXCEPT !.buf = Tail(b),
                           !.state = IF Head(b) = "," THEN "EXPECT_KEY" ELSE "COMPLETE"]

\* the loop of process_buffer ends with an empty or a blank buffer
BufferEmpty ==
  /\ pc = "read" /\ parser.state # "COMPLETE" /\ ~parser.waiting
  /\ SkipWhitespace(parser.buf) = <<>>
  /\ parser' = [parser EXCEPT !.buf = <<>>, !.waiting = TRUE]
  /\ UNCHANGED vars

-----------------------------------------------------------------------------
(* config_read_streaming. *)
OpenFile ==
  /\ pc = "read" /\ parser = Closed /\ file # None
  /\ parser' = [Closed EXCEPT !.state = "EXPECT_OBJECT_START"]
  /\ UNCHANGED vars

NoFile == Read /\ file = None /\ UNCHANGED parser

ReadChunk ==
  /\ pc = "read" /\ parser.waiting /\ parser.state \notin {"CLOSED", "COMPLETE"}
  /\ LET text == FileText(file)
     IN  /\ parser.pos < Len(text)
         /\ \E n \in Chunks :
              LET end == Min({parser.pos + n, Len(text)})
              IN  parser' = [parser EXCEPT !.buf = @ \o SubSeq(text, parser.pos + 1, end),
                               !.pos = end, !.waiting = FALSE]
  /\ UNCHANGED vars

\* extract_value_from_object: the string or the number after a field's name
ExtractValueFromObject(obj, f) ==
  LET at == {i \in 1..(Len(obj) - 2) : SubSeq(obj, i, i + 2) = Quote(<<f>>)}
      value == From(obj, Find(obj, ":", Min(at)) + 1)
      string == value # <<>> /\ Head(value) = Q
      end == IF string THEN Find(value, Q, 2) ELSE SimpleEnd(value) + 1
  IN  IF at = {} \/ end = 0 THEN <<>> ELSE SubSeq(value, IF string THEN 2 ELSE 1, end - 1)

ProcessConfigItem(obj) ==
  [type |-> FoldLeft(LAMBDA a, b : b, "", ExtractValueFromObject(obj, "type")),
   text |-> ExtractValueFromObject(obj, "value"),
   min  |-> ExtractValueFromObject(obj, "min"),
   max  |-> ExtractValueFromObject(obj, "max")]

Processed ==
  [k \in {n \in Range(Ordered) : <<n>> \in DOMAIN parser.parsed} |->
     ProcessConfigItem(parser.parsed[<<k>>])]

\* a complete object, and a checksum that matches what has been read if there is one
Accepted ==
  /\ parser.state = "COMPLETE"
  /\ <<"__crc32__">> \in DOMAIN parser.parsed => CrcText(Processed) = CrcText(AsMap(file))

\* what a value is read as; a key that is missing has its default when it is asked for
Decoded(key, text, values, otherwise) ==
  LET read == {v \in values : key \in DOMAIN Processed /\ Processed[key].text = text[v]}
  IN  IF read = {} THEN otherwise ELSE CHOOSE v \in read : TRUE

FromFile ==
  [value |-> Decoded("touch_response_delay", [v \in Value |-> Number(v)], Value, Default),
   sens  |-> Decoded("touch_devices", Bytes, Value \cup {None}, None),
   keys  |-> Decoded("physical_keyboards", [n \in Keys |-> Number(n)], Keys, 0)]

ReadEnds ==
  /\ pc = "read" /\ parser # Closed /\ parser' = Closed
  /\ \/ parser.state = "COMPLETE"
     \/ parser.waiting /\ parser.pos = Len(FileText(file))
  /\ IF Accepted THEN runtime' = FromFile /\ pc' = "load"
                 ELSE pc' = "format" /\ UNCHANGED runtime
  /\ UNCHANGED <<file, live, copy, requested, restarts, promised>>

-----------------------------------------------------------------------------
FileInit == Init /\ parser = Closed

Reading == \/ OpenFile \/ NoFile \/ ReadChunk \/ BufferEmpty \/ ReadEnds
           \/ ExpectObjectStart \/ ExpectKey \/ ExpectColon \/ ExpectValue
           \/ ExpectCommaOrEnd

FileNext ==
  \/ Reading
  \/ (Format \/ SaveDefaults \/ Load \/ Change \/ Press \/ Apply \/ Core0) /\ UNCHANGED parser
  \/ Restart /\ parser' = Closed

FileSpec == FileInit /\ [][FileNext]_<<vars, parser>>

-----------------------------------------------------------------------------
\* StreamingJsonParser and config_read_streaming: whatever bytes the settings have and
\* wherever the chunks end, the file is read back as it was saved, or given up where
\* ConfigStore says it cannot be read.
ImplementsConfigStore == Spec
=============================================================================

---------------------------- MODULE ThinkFilter ----------------------------
(***************************************************************************)
(* StreamThinkFilter: the byte machine between the decoder and a streaming *)
(* consumer.  It removes reasoning blocks and delivers whole characters    *)
(* only.  The buffered path removes the same blocks afterwards, from the   *)
(* whole text (ChatAdapter::strip_think_blocks), and is the reference.     *)
(*                                                                         *)
(* A byte is a one-letter string.  Open and Close are shortened markers    *)
(* that, like the real ones, share their first byte and differ in length;  *)
(* "2", "3" and "4" are the lead bytes of characters of that many bytes    *)
(* and "+" is a continuation byte.                                         *)
(***************************************************************************)
EXTENDS Integers, Sequences, SequencesExt, FiniteSetsExt

CONSTANTS Bytes,    \* the bytes of a generation
          Tokens,   \* chunks the decoder may emit: byte sequences
          MaxBytes  \* bound: length of a generation

ASSUME BytesAssumption == {"<", "/", "t", ">"} \subseteq Bytes
ASSUME TokensAssumption == Tokens \subseteq Seq(Bytes) /\ MaxBytes \in Nat

VARIABLES in_think,  \* inside a reasoning block
          tag_buf,   \* bytes that may become a marker
          utf8_buf,  \* an incomplete character
          delivered, \* the chunks the consumer callback received
          raw,       \* every byte of the generation so far
          ended      \* flush() ran

vars == <<in_think, tag_buf, utf8_buf, delivered, raw, ended>>

Open == <<"<", "t", ">">>
Close == <<"<", "/", "t", ">">>
MaxMarkerLen == Max({Len(Open), Len(Close)})

---------------------------------------------------------------------------
\* utf8_char_len: 0 for a continuation byte.
CharLen(b) == CASE b = "2" -> 2 [] b = "3" -> 3 [] b = "4" -> 4 [] b = "+" -> 0
                [] OTHER -> 1

\* A scan that gives up two bytes before the end.
HeldOfTwo(bytes) ==
    LET leads == {i \in 1 .. Min({2, Len(bytes)}) : CharLen(bytes[Len(bytes) + 1 - i]) > 0}
    IN IF leads = {} \/ Min(leads) >= CharLen(bytes[Len(bytes) + 1 - Min(leads)])
       THEN 0 ELSE Min(leads)

\* emit_utf8_safe's backward scan: the bytes to hold back, those of a last
\* character that is not complete yet.
Held(bytes) ==
    LET leads == {i \in 1 .. Min({4, Len(bytes)}) : CharLen(bytes[Len(bytes) + 1 - i]) > 0}
    IN IF leads = {} \/ Min(leads) >= CharLen(bytes[Len(bytes) + 1 - Min(leads)])
       THEN 0 ELSE Min(leads)

\* emit_utf8_safe, on the filter's state as a record, so that a chunk is a
\* loop over its bytes.
Emit(f, bytes) ==
    LET buf == f.utf8 \o bytes
        safe == Len(buf) - Held(buf)
    IN [f EXCEPT !.out = IF safe > 0 THEN Append(@, SubSeq(buf, 1, safe)) ELSE @,
                 !.utf8 = SubSeq(buf, safe + 1, Len(buf))]

\* Text delivered inside a block as well.
EmitAlways(f, bytes) == Emit(f, bytes)

EmitOutside(f, bytes) == IF f.think THEN f ELSE Emit(f, bytes)

\* process_byte
ProcessByte(f, b) ==
    LET tag == Append(f.tag, b)
    IN IF f.tag = <<>> /\ b # Head(Open) /\ b # Head(Close)
       THEN EmitOutside(f, <<b>>)
       ELSE IF tag \in {Open, Close}
       THEN [f EXCEPT !.think = (tag = Open), !.tag = <<>>]
       ELSE IF Len(tag) > MaxMarkerLen
       THEN [EmitOutside(f, tag) EXCEPT !.tag = <<>>]
       ELSE [f EXCEPT !.tag = tag]

\* on_token's loop over the bytes of a chunk.
ProcessBytes(f, chunk) ==
    LET after[i \in 0 .. Len(chunk)] ==
            IF i = 0 THEN f ELSE ProcessByte(after[i - 1], chunk[i])
    IN after[Len(chunk)]

Current == [think |-> in_think, tag |-> tag_buf, utf8 |-> utf8_buf, out |-> delivered]

Becomes(f) == /\ in_think' = f.think
              /\ tag_buf' = f.tag
              /\ utf8_buf' = f.utf8
              /\ delivered' = f.out

---------------------------------------------------------------------------
Init == /\ in_think = FALSE
        /\ tag_buf = <<>> /\ utf8_buf = <<>>
        /\ delivered = <<>> /\ raw = <<>>
        /\ ended = FALSE

\* on_token
OnToken(chunk) ==
    /\ ~ended
    /\ Len(raw) + Len(chunk) <= MaxBytes
    /\ Becomes(ProcessBytes(Current, chunk))
    /\ raw' = raw \o chunk
    /\ UNCHANGED ended

\* flush: what is still buffered is content after all.
Flush ==
    /\ ~ended
    /\ LET f == IF tag_buf = <<>> THEN Current ELSE EmitOutside(Current, tag_buf)
       IN Becomes([f EXCEPT !.tag = <<>>, !.utf8 = <<>>,
                            !.out = IF f.utf8 = <<>> THEN @ ELSE Append(@, f.utf8)])
    /\ ended' = TRUE
    /\ UNCHANGED raw

Next == (\E chunk \in Tokens : OnToken(chunk)) \/ Flush

Spec == Init /\ [][Next]_vars

---------------------------------------------------------------------------
At(text, marker, i) == i + Len(marker) - 1 <= Len(text)
                       /\ SubSeq(text, i, i + Len(marker) - 1) = marker

\* std::string::find from position i, or one past the end.
Find(text, marker, i) ==
    Min({Len(text) + 1} \cup {j \in i .. Len(text) : At(text, marker, j)})

\* A round of strip_think_blocks' loop: erase the first block, to the end if it
\* is not closed.
EraseFirst(text) ==
    LET open == Find(text, Open, 1)
        close == Find(text, Close, open + Len(Open))
    IN IF open > Len(text) THEN text
       ELSE SubSeq(text, 1, open - 1) \o SubSeq(text, close + Len(Close), Len(text))

\* strip_think_blocks, without its final trim: erase until there is no block.  A
\* round removes a byte at least, so Len(text) rounds are enough.
StripThinkBlocks(text) ==
    LET round[n \in 0 .. Len(text)] ==
            IF n = 0 THEN text ELSE EraseFirst(round[n - 1])
    IN round[Len(text)]

\* A generation whose every "<" begins a marker, whose markers alternate, and
\* that does not stop inside a character.
Opens(text) == {i \in 1 .. Len(text) : At(text, Open, i)}
Closes(text) == {i \in 1 .. Len(text) : At(text, Close, i)}

WellMarked(text) ==
    /\ \A i \in 1 .. Len(text) : text[i] = "<" => i \in Opens(text) \cup Closes(text)
    /\ \A i \in Closes(text) :
           \E j \in Opens(text) : j < i /\ ~\E k \in Closes(text) : j < k /\ k < i
    /\ \A i, j \in Opens(text) : i < j => \E k \in Closes(text) : i < k /\ k < j

\* A character that begins before position i reaches it.
WithinChar(text, i) == \E k \in 1 .. 3 : k < i /\ CharLen(text[i - k]) > k

Utf8(text) == /\ \A i \in 1 .. Len(text) : text[i] = "+" <=> WithinChar(text, i)
              /\ ~WithinChar(text, Len(text) + 1)

Text == FlattenSeq(delivered)

(* The stream and the buffered path agree: once the generation ended, the  *)
(* consumer has received exactly what strip_think_blocks leaves of the     *)
(* text, however the decoder cut it into chunks and wherever a marker or a *)
(* character was split.  Stated for generations in which every "<" begins  *)
(* a marker and blocks alternate (an unclosed last block included).        *)
StreamIsStripped ==
    ended /\ WellMarked(raw) => Text = StripThinkBlocks(raw)

(* Every chunk the consumer sees is made of whole characters if the        *)
(* generation is, whatever markers, stray "<" or overflowing tag buffers   *)
(* split it: stream_think_filter.h, "UTF-8 codepoint-aligned".             *)
WholeCharacters ==
    ended /\ Utf8(raw) => \A i \in 1 .. Len(delivered) : Utf8(delivered[i])

(* No byte of a reasoning block reaches the stream, whatever precedes the  *)
(* block ("this filter is the ONLY defense" on the agent loop's streaming  *)
(* path).  The code does not guarantee it: a stray "<" less than a marker  *)
(* before a block swallows the opening marker.  "r" stands for reasoning.  *)
NoReasoningLeaks ==
    ended /\ "r" \notin ToSet(StripThinkBlocks(raw)) => "r" \notin ToSet(Text)
===========================================================================

--------------------------------- MODULE Codec ---------------------------------
(***************************************************************************)
(* The frames of the session protocol, crates/novamux-core/src/protocol.rs:*)
(* a header of ten bytes (magic, version, kind, length of the payload) and *)
(* a payload of counts, words and length-prefixed fields.                  *)
(*                                                                         *)
(* Bytes are numbers and text is the sequence of its bytes.  A u64 is kept *)
(* as its eight bytes, since nothing computes with it.  Which error refuses*)
(* a message is not told apart: to encode gives NoFrame, and to decode one *)
(* gives a record that is not ok.                                          *)
(***************************************************************************)
EXTENDS Naturals, SequencesExt

CONSTANTS MaxFrameBytes,     \* MAX_FRAME_BYTES, 8192 in the code
          MaxListedSessions, \* MAX_LISTED_SESSIONS, 64
          MaxErrorBytes,     \* MAX_ERROR_MESSAGE_BYTES, 256
          MaxInputBytes,     \* MAX_INPUT_BYTES, 4096
          MaxNameBytes,      \* SessionName::MAX_BYTES, 64
          MaxSnapshotPanes,  \* MAX_SNAPSHOT_PANES, 32
          SnapshotBytes      \* the text of one snapshot, 6500

HeaderBytes == 10
PaneBytes == 19 \* a pane of a Screen, without its text

(* The limits stay below 2^16, so that a length that passes one fits its    *)
(* u16; the counts and the length of a name fit a byte.                     *)
ASSUME CodecAssumption ==
    /\ MaxFrameBytes \in Nat /\ MaxFrameBytes <= 65535
    /\ {MaxErrorBytes, MaxInputBytes, SnapshotBytes} \subseteq 0..MaxFrameBytes
    /\ {MaxListedSessions, MaxSnapshotPanes, MaxNameBytes} \subseteq 0..255

(* A response that keeps its own limits fits a frame. *)
ASSUME FrameAssumption ==
    /\ HeaderBytes + 8 <= MaxFrameBytes
    /\ HeaderBytes + 1 + MaxNameBytes <= MaxFrameBytes
    /\ HeaderBytes + 3 + MaxErrorBytes <= MaxFrameBytes
    /\ HeaderBytes + 1 + (MaxNameBytes + 3) * MaxListedSessions <= MaxFrameBytes
    /\ HeaderBytes + 1 + PaneBytes * MaxSnapshotPanes + SnapshotBytes <= MaxFrameBytes

Byte == 0..255
Magic == <<78, 86, 77, 88>>
Version == 1

RequestKind == [CREATE |-> 1, LIST |-> 2, ATTACH |-> 3, DETACH |-> 4, PING |-> 5,
                INPUT |-> 6, RESIZE |-> 7, COMMAND |-> 8, SNAPSHOT |-> 9]
ResponseKind == [CREATED |-> 129, SESSIONS |-> 130, ATTACHED |-> 131, DETACHED |-> 132,
                 PONG |-> 133, SCREEN |-> 134, ERROR |-> 255]
Kind == [kind \in DOMAIN RequestKind \cup DOMAIN ResponseKind |->
            IF kind \in DOMAIN RequestKind THEN RequestKind[kind] ELSE ResponseKind[kind]]
ErrorCode == 1..5

------------------------------------------------------------------------------
(* Text.                                                                    *)

(* SessionName::parse: letters, digits, - and _. *)
NameByte == (48..57) \cup (65..90) \cup (97..122) \cup {45, 95}
Name == {s \in Seq(NameByte) : Len(s) \in 1..MaxNameBytes}

(* UTF-8: a first byte and as many continuation bytes as it announces.      *)
(* (Surrogates and overlong forms of three and four bytes are left out.)    *)
Continuation == 128..191
Width(byte) == CASE byte < 128 -> 1
                 [] byte \in 194..223 -> 2
                 [] byte \in 224..239 -> 3
                 [] byte \in 240..244 -> 4
                 [] OTHER -> 0
Utf8(text) ==
    \A i \in DOMAIN text :
        IF text[i] \in Continuation
          THEN \E k \in 1..3 :
                 /\ k < i
                 /\ Width(text[i - k]) > k
                 /\ \A j \in (i - k + 1)..i : text[j] \in Continuation
          ELSE /\ Width(text[i]) > 0
               /\ \A k \in 1..(Width(text[i]) - 1) :
                    i + k <= Len(text) /\ text[i + k] \in Continuation

CharBoundary(text, i) == i = Len(text) \/ text[i + 1] \notin Continuation

(* truncate_utf8: the longest tail of whole characters within the maximum. *)
TruncateUtf8(text, maximum) ==
    IF Len(text) <= maximum THEN text
    ELSE LET start == CHOOSE s \in (Len(text) - maximum)..Len(text) :
                        /\ CharBoundary(text, s)
                        /\ \A t \in (Len(text) - maximum)..(s - 1) : ~CharBoundary(text, t)
         IN  SubSeq(text, start + 1, Len(text))

(* bounded_message: the longest such beginning. *)
BoundedMessage(text) ==
    IF Len(text) <= MaxErrorBytes THEN text
    ELSE LET end == CHOOSE e \in 0..MaxErrorBytes :
                        /\ CharBoundary(text, e)
                        /\ \A t \in (e + 1)..MaxErrorBytes : ~CharBoundary(text, t)
         IN  SubSeq(text, 1, end)

------------------------------------------------------------------------------
(* Encoding.                                                                *)
NoFrame == <<>>
Word16(n) == <<n \div 256, n % 256>>
Word32(n) == <<n \div 16777216, (n \div 65536) % 256, (n \div 256) % 256, n % 256>>
PutName(name) == <<Len(name)>> \o name
PutBytes(bytes) == Word16(Len(bytes)) \o bytes

Frame(kind, payload) ==
    IF HeaderBytes + Len(payload) > MaxFrameBytes THEN NoFrame
    ELSE Magic \o <<Version, Kind[kind]>> \o Word32(Len(payload)) \o payload

EncodeRequest(r) ==
    CASE r.kind \in {"CREATE", "ATTACH", "DETACH"} -> Frame(r.kind, PutName(r.name))
      [] r.kind \in {"LIST", "SNAPSHOT"} -> Frame(r.kind, <<>>)
      [] r.kind = "PING" -> Frame("PING", r.nonce)
      [] r.kind = "INPUT" -> IF Len(r.bytes) > MaxInputBytes THEN NoFrame
                           ELSE Frame("INPUT", PutBytes(r.bytes))
      [] r.kind = "RESIZE" -> Frame("RESIZE", Word16(r.cols) \o Word16(r.rows))
      [] r.kind = "COMMAND" -> Frame("COMMAND", <<r.command>>)

PutSession(s) == PutName(s.name) \o Word16(s.attached_clients)
PutPane(p) == p.id \o Word16(p.x) \o Word16(p.y) \o Word16(p.width) \o Word16(p.height)
                   \o <<IF p.focused THEN 1 ELSE 0>> \o PutBytes(p.text)
PutAll(items, Put(_)) ==
    <<Len(items)>> \o FlattenSeq([i \in DOMAIN items |-> Put(items[i])])

EncodeResponse(r) ==
    CASE r.kind \in {"CREATED", "ATTACHED", "DETACHED"} -> Frame(r.kind, PutName(r.name))
      [] r.kind = "SESSIONS" -> IF Len(r.sessions) > MaxListedSessions THEN NoFrame
                              ELSE Frame("SESSIONS", PutAll(r.sessions, PutSession))
      [] r.kind = "PONG" -> Frame("PONG", r.nonce)
      [] r.kind = "SCREEN" -> IF Len(r.panes) > MaxSnapshotPanes THEN NoFrame
                            ELSE Frame("SCREEN", PutAll(r.panes, PutPane))
      [] r.kind = "ERROR" -> IF Len(r.message) > MaxErrorBytes THEN NoFrame
                           ELSE Frame("ERROR", <<r.code>> \o PutBytes(r.message))

------------------------------------------------------------------------------
(* Decoding.  The Cursor: what has been read, and the bytes after it.       *)
Got(value, rest) == [ok |-> TRUE, value |-> value, rest |-> rest]
Failed == [ok |-> FALSE]
Then(read, Next(_)) == IF read.ok THEN Next(read) ELSE Failed
If(condition, read) == IF condition THEN read ELSE Failed

Take(bytes, n) ==
    If(n <= Len(bytes), Got(SubSeq(bytes, 1, n), SubSeq(bytes, n + 1, Len(bytes))))
GetByte(bytes) == Then(Take(bytes, 1), LAMBDA b : Got(b.value[1], b.rest))
Get16(bytes) == Then(Take(bytes, 2), LAMBDA w : Got(256 * w.value[1] + w.value[2], w.rest))
GetBytes(bytes, maximum) ==
    Then(Get16(bytes), LAMBDA len : If(len.value <= maximum, Take(len.rest, len.value)))
GetText(bytes, maximum) ==
    Then(GetBytes(bytes, maximum), LAMBDA text : If(Utf8(text.value), text))

(* With SessionName::parse. *)
GetName(bytes) ==
    Then(GetByte(bytes), LAMBDA len :
        If(len.value \in 1..MaxNameBytes,
           Then(Take(len.rest, len.value), LAMBDA name :
               If(\A i \in DOMAIN name.value : name.value[i] \in NameByte, name))))

GetSession(bytes) ==
    Then(GetName(bytes), LAMBDA name : Then(Get16(name.rest), LAMBDA count :
        Got([name |-> name.value, attached_clients |-> count.value], count.rest)))

(* Mutant of GetFocused: any byte but zero is true. *)
GetFocusedLenient(bytes) == Then(GetByte(bytes), LAMBDA b : Got(b.value # 0, b.rest))

GetFocused(bytes) ==
    Then(GetByte(bytes), LAMBDA b : If(b.value \in {0, 1}, Got(b.value = 1, b.rest)))

GetPane(bytes) ==
    Then(Take(bytes, 8), LAMBDA id : Then(Get16(id.rest), LAMBDA x :
    Then(Get16(x.rest), LAMBDA y : Then(Get16(y.rest), LAMBDA width :
    Then(Get16(width.rest), LAMBDA height : Then(GetFocused(height.rest), LAMBDA focused :
    Then(GetText(focused.rest, MaxFrameBytes), LAMBDA text :
        Got([id |-> id.value, x |-> x.value, y |-> y.value, width |-> width.value,
             height |-> height.value, focused |-> focused.value, text |-> text.value],
            text.rest))))))))

GetAll(bytes, maximum, Get(_)) ==
    Then(GetByte(bytes), LAMBDA count : If(count.value <= maximum,
        FoldLeft(LAMBDA items, i : Then(items, LAMBDA so_far :
                     Then(Get(so_far.rest), LAMBDA item :
                         Got(Append(so_far.value, item.value), item.rest))),
                 Got(<<>>, count.rest), [i \in 1..count.value |-> i])))

(* unframe.  A length of more than two bytes is over any limit. *)
FrameLength(frame) ==
    IF frame[7] > 0 \/ frame[8] > 0 THEN MaxFrameBytes + 1
    ELSE HeaderBytes + 256 * frame[9] + frame[10]
Unframe(frame) ==
    If(/\ Len(frame) >= HeaderBytes
       /\ SubSeq(frame, 1, 4) = Magic
       /\ frame[5] = Version
       /\ FrameLength(frame) <= MaxFrameBytes
       /\ Len(frame) = FrameLength(frame),
       Got(frame[6], SubSeq(frame, HeaderBytes + 1, Len(frame))))

(* Cursor::finish. *)
Finished(read, Message(_)) ==
    Then(read, LAMBDA last : If(last.rest = <<>>, Got(Message(last.value), <<>>)))

RequestOf(kind, payload) ==
    CASE kind \in {"CREATE", "ATTACH", "DETACH"} ->
           Finished(GetName(payload), LAMBDA name : [kind |-> kind, name |-> name])
      [] kind \in {"LIST", "SNAPSHOT"} ->
           Finished(Take(payload, 0), LAMBDA none : [kind |-> kind])
      [] kind = "PING" -> Finished(Take(payload, 8), LAMBDA nonce : [kind |-> kind, nonce |-> nonce])
      [] kind = "INPUT" -> Finished(GetBytes(payload, MaxInputBytes),
                                  LAMBDA bytes : [kind |-> kind, bytes |-> bytes])
      [] kind = "RESIZE" ->
           Finished(Then(Get16(payload), LAMBDA cols : Then(Get16(cols.rest), LAMBDA rows :
                        Got(<<cols.value, rows.value>>, rows.rest))),
                    LAMBDA size : [kind |-> kind, cols |-> size[1], rows |-> size[2]])
      [] kind = "COMMAND" -> Finished(GetByte(payload), LAMBDA b : [kind |-> kind, command |-> b])

ResponseOf(kind, payload) ==
    CASE kind \in {"CREATED", "ATTACHED", "DETACHED"} ->
           Finished(GetName(payload), LAMBDA name : [kind |-> kind, name |-> name])
      [] kind = "SESSIONS" -> Finished(GetAll(payload, MaxListedSessions, GetSession),
                                     LAMBDA all : [kind |-> kind, sessions |-> all])
      [] kind = "PONG" -> Finished(Take(payload, 8), LAMBDA nonce : [kind |-> kind, nonce |-> nonce])
      [] kind = "SCREEN" -> Finished(GetAll(payload, MaxSnapshotPanes, GetPane),
                                   LAMBDA all : [kind |-> kind, panes |-> all])
      [] kind = "ERROR" ->
           Finished(Then(GetByte(payload), LAMBDA code : If(code.value \in ErrorCode,
                        Then(GetText(code.rest, MaxErrorBytes), LAMBDA text :
                            Got(<<code.value, text.value>>, text.rest)))),
                    LAMBDA error : [kind |-> kind, code |-> error[1], message |-> error[2]])

Known(kinds, frame, MessageOf(_, _)) ==
    Then(Unframe(frame), LAMBDA f : If(f.value \in Range(kinds),
        MessageOf(CHOOSE kind \in DOMAIN kinds : kinds[kind] = f.value, f.rest)))
DecodeRequest(frame) == Known(RequestKind, frame, RequestOf)
DecodeResponse(frame) == Known(ResponseKind, frame, ResponseOf)
==============================================================================

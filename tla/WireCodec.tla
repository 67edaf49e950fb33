----------------------------- MODULE WireCodec -----------------------------
(***************************************************************************)
(* The frames of the Relay websocket (relay_sdk/protocol.py).  A frame is   *)
(* a sequence of bytes: the number of its kind, then strings and byte      *)
(* buffers, each preceded by its length.  Numbers are written in groups of *)
(* bits, the lowest first; every group but the last has the high bit set.  *)
(* What stands for an exception is Malformed; CBOR is left to the users.   *)
(***************************************************************************)
EXTENDS Integers, SequencesExt

CONSTANTS
  Group,      \* 128: how many values a group of bits has
  MaxGroups,  \* 10: a number has at most so many groups (shift > 63)
  MaxQuery,   \* MAX_QUERY_SUBDOCS_PER_REQUEST (100)
  Text        \* the byte strings that are UTF-8

Bytes == 0 .. 2 * Group - 1

ASSUME CodecAssumption ==
  /\ Group \in Nat /\ Group > 1
  /\ MaxGroups \in Nat \ {0} /\ MaxQuery \in Nat \ {0}
  /\ Text \subseteq Seq(Bytes)

MsgEvent == 4
MsgEventSubscribe == 5
MsgEventUnsubscribe == 6
MsgQuerySubdocs == 7
MsgSubdocs == 8

StringLists == {MsgEventSubscribe, MsgEventUnsubscribe, MsgQuerySubdocs}

Malformed == [type |-> "malformed"]

------------------------------------------------------------------------------

(* Mutant: the largest value of a group is written as if it needed two. *)
VaruintShort(n) ==
  LET V[k \in Nat] == IF k <= Group THEN <<k>> ELSE <<Group + (k % Group)>> \o V[k \div Group]
  IN V[n]

(* encode_varuint *)
Varuint(n) ==
  LET V[k \in Nat] == IF k < Group THEN <<k>> ELSE <<Group + (k % Group)>> \o V[k \div Group]
  IN V[n]

(* What a step of decoding gives: the value, and where to go on. *)
Read(value, next) == [type |-> "read", value |-> value, next |-> next]

(* decode_varuint: it ends with the first byte that has no high bit, which  *)
(* must be there and be among the first MaxGroups.                         *)
ReadVaruint(data, at) ==
  LET ends == {i \in at .. Len(data) : data[i] < Group}
      end  == CHOOSE i \in ends : \A j \in ends : i <= j
      V[i \in at .. end] == IF i = end THEN data[i] ELSE (data[i] % Group) + Group * V[i + 1]
  IN IF ends = {} \/ end >= at + MaxGroups THEN Malformed ELSE Read(V[at], end + 1)

(* encode_bytes, and encode_string of what is text *)
Counted(raw) == Varuint(Len(raw)) \o raw

(* Mutant: a buffer that is cut short is taken as it is. *)
ReadBytesLeniently(data, at) ==
  LET n == ReadVaruint(data, at)
      end == IF n = Malformed THEN at
             ELSE IF n.next + n.value - 1 <= Len(data) THEN n.next + n.value ELSE Len(data) + 1
  IN IF n = Malformed THEN Malformed ELSE Read(SubSeq(data, n.next, end - 1), end)

(* decode_bytes *)
ReadBytes(data, at) ==
  LET n == ReadVaruint(data, at)
  IN IF n = Malformed \/ n.next + n.value - 1 > Len(data) THEN Malformed
     ELSE Read(SubSeq(data, n.next, n.next + n.value - 1), n.next + n.value)

(* decode_string *)
ReadString(data, at) ==
  LET raw == ReadBytes(data, at)
  IN IF raw = Malformed \/ raw.value \notin Text THEN Malformed ELSE raw

(* _decode_string_list *)
ReadStrings(data, at) ==
  LET count == ReadVaruint(data, at)
      S[k \in Nat] ==
        IF k = 0 THEN Read(<<>>, count.next)
        ELSE LET before == S[k - 1]
                 next   == ReadString(data, before.next)
             IN IF before = Malformed \/ next = Malformed THEN Malformed
                ELSE Read(Append(before.value, next.value), next.next)
  IN IF count = Malformed THEN Malformed ELSE S[count.value]

------------------------------------------------------------------------------

(* _encode_string_list_message *)
StringList(tag, values) ==
  Varuint(tag) \o Varuint(Len(values)) \o FlattenSeq([i \in DOMAIN values |-> Counted(values[i])])

(* encode_event_subscription *)
EventSubscription(types) == StringList(MsgEventSubscribe, types)

(* encode_query_subdocs: not for no document, nor for too many. *)
QuerySubdocs(guids) ==
  IF Len(guids) \in 1 .. MaxQuery THEN StringList(MsgQuerySubdocs, guids) ELSE Malformed

(* What the server sends: an event or an index answer, as a CBOR buffer. *)
Buffer(tag, cbor) == Varuint(tag) \o Counted(cbor)

(* _ensure_consumed *)
Consumed(frame, body, message) ==
  IF body = Malformed \/ body.next # Len(frame) + 1 THEN Malformed ELSE message

(* decode_message *)
DecodeMessage(frame) ==
  LET tag == ReadVaruint(frame, 1) IN
  IF tag = Malformed THEN Malformed
  ELSE IF tag.value \in {MsgEvent, MsgSubdocs}
  THEN LET body == ReadBytes(frame, tag.next)
       IN Consumed(frame, body, [type |-> IF tag.value = MsgEvent THEN "event" ELSE "subdocs",
                                 cbor |-> body.value])
  ELSE IF tag.value \in StringLists
  THEN LET body == ReadStrings(frame, tag.next)
       IN Consumed(frame, body, [type |-> "strings", tag |-> tag.value, values |-> body.value])
  ELSE [type |-> "other", tag |-> tag.value, payload |-> SubSeq(frame, tag.next, Len(frame))]
==============================================================================

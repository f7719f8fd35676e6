------------------------------ MODULE EdpStream ------------------------------
(***************************************************************************)
(* The EDP packets of OneNet/EdpKit.c and the receiving end of the stream  *)
(* they travel in, recv_data_process of User/cloud.c.                      *)
(*                                                                         *)
(* A packet is a sequence of bytes: a type, the length of the rest in one  *)
(* to four digits of base Half, least significant first, all but the last  *)
(* with the top bit set, and the rest.  TCP hands the stream over in       *)
(* pieces that need not end where packets do.                              *)
(***************************************************************************)
EXTENDS Integers, Sequences, FiniteSetsExt, SequencesExt

CONSTANTS
  Half,         \* 0x80: a byte is below 2 * Half
  RecvSize,     \* CLOUD_RECV_BUFFER_SIZE
  MaxBin,       \* 3 MB, the largest binary data of one packet
  Messages,     \* what the server sends: tuples that begin with a type
  Uploads,      \* the packets the device builds
  MaxSent       \* bound: messages the server sends

ByteBase == 2 * Half
Word16 == ByteBase * ByteBase
Word32 == Word16 * Word16

ASSUME EdpAssumption ==
  /\ Half \in Nat /\ Half >= 8
  /\ RecvSize \in Nat \ {0}
  /\ MaxSent \in Nat

(* The types and the data flags, the types without their low bits.         *)
CONNREQ == 1
CONNRESP == 2
PUSHDATA == 3
SAVEDATA == 8
SAVEACK == 9
CMDREQ == 10
CMDRESP == 11
PINGREQ == 12
PINGRESP == 13
kTypeFullJson == 1
kTypeBin == 2
kTypeSimpleJsonWithoutTime == 3
kTypeSimpleJsonWithTime == 4
kTypeString == 5
AddressFlag == Half

-----------------------------------------------------------------------------
(* Writing.                                                                *)

WriteUint16(v) == <<(v % Word16) \div ByteBase, v % ByteBase>>

WriteUint32(v) == WriteUint16(v \div Word16) \o WriteUint16(v)

(* The length goes through a uint16.                                       *)
WriteStr(s) == WriteUint16(Len(s)) \o SubSeq(s, 1, Len(s) % Word16)

WriteRemainlen(len) ==
  LET w[v \in 0 .. len] ==
        IF v < Half THEN <<v>> ELSE <<(v % Half) + Half>> \o w[v \div Half]
  IN  w[len]

ProtocolName == <<1, 2, 3>>

PacketConnect1(devid, key) ==
  <<CONNREQ>>
  \o WriteRemainlen((2 + 3) + 1 + 1 + 2 + (2 + Len(devid)) + (2 + Len(key)))
  \o WriteStr(ProtocolName) \o <<1, 4>> \o WriteUint16(Half)
  \o WriteStr(devid) \o WriteStr(key)

PacketConnect2(userid, info) ==
  <<CONNREQ>>
  \o WriteRemainlen((2 + 3) + 1 + 1 + 2 + 2 + (2 + Len(userid)) + (2 + Len(info)))
  \o WriteStr(ProtocolName) \o <<1, 12>> \o WriteUint16(Half) \o <<0, 0>>
  \o WriteStr(userid) \o WriteStr(info)

PacketPushdata(dst, data) ==
  <<PUSHDATA>> \o WriteRemainlen((2 + Len(dst)) + Len(data)) \o WriteStr(dst) \o data

(* The part that the SAVEDATA packets begin with; the destination is <<>>  *)
(* for no destination or <<dst>>.                                          *)
SavedataHead(dst, len, flag) ==
  <<SAVEDATA>>
  \o (IF dst # <<>>
      THEN WriteRemainlen(1 + (2 + Len(dst[1])) + 1 + len)
           \o <<AddressFlag>> \o WriteStr(dst[1])
      ELSE WriteRemainlen(1 + 1 + len) \o <<0>>)
  \o <<flag>>

PacketSavedataJson(dst, json, type) ==
  SavedataHead(dst, 2 + Len(json), type) \o WriteStr(json)

PacketSavedataSimpleString(dst, input) ==
  SavedataHead(dst, 2 + Len(input), kTypeString) \o WriteStr(input)

(* No packet is made of a description longer than 2^16 or of more than     *)
(* MaxBin bytes.                                                           *)
PacketSavedataBinStr(dst, desc, bin) ==
  IF Len(desc) > Word16 \/ Len(bin) > MaxBin THEN <<>>
  ELSE SavedataHead(dst, (2 + Len(desc)) + (4 + Len(bin)), kTypeBin)
       \o WriteStr(desc) \o WriteUint32(Len(bin)) \o bin

(* The same from a JSON object, which must have a ds_id.                   *)
PacketSavedataBin(dst, desc, has_ds_id, bin) ==
  IF has_ds_id THEN PacketSavedataBinStr(dst, desc, bin) ELSE <<>>

PacketCmdResp(cmdid, resp) ==
  <<CMDRESP>>
  \o WriteRemainlen(Len(cmdid) + Len(resp) + (IF resp # <<>> THEN 6 ELSE 2))
  \o WriteUint16(Len(cmdid)) \o cmdid
  \o (IF resp # <<>> THEN WriteUint32(Len(resp)) \o resp ELSE <<>>)

PacketPing == <<PINGREQ>> \o WriteRemainlen(0)

-----------------------------------------------------------------------------
(* Reading.  A reader takes a packet f and the number pos of its bytes     *)
(* already read; it gives ok, the new pos and the value.                   *)

Failed(pos) == [ok |-> FALSE, pos |-> pos, val |-> <<>>]
Got(pos, val) == [ok |-> TRUE, pos |-> pos, val |-> val]

(* The value of the n length digits after pos.                             *)
DigitSum(f, pos, n) ==
  LET sum[k \in 0 .. n] ==
        IF k = 0 THEN 0
        ELSE sum[k - 1] + (f[pos + k] % Half) * Half ^ (k - 1)
  IN  sum[n]

(* The number of length digits after pos, 0 when the last is not there.    *)
Digits(f, pos) ==
  LET last == {k \in 1 .. Len(f) - pos : f[pos + k] < Half}
  IN  IF last = {} THEN 0 ELSE Min(last)

ReadByte(f, pos) ==
  IF pos + 1 > Len(f) THEN Failed(pos) ELSE Got(pos + 1, f[pos + 1])

(* The sum is a uint32; a count that makes it wrap passes the test.        *)
ReadBytes(f, pos, count) ==
  IF (pos + count) % Word32 > Len(f) THEN Failed(pos)
  ELSE Got(pos + count, SubSeq(f, pos + 1, pos + count))

ReadUint16(f, pos) ==
  IF pos + 2 > Len(f) THEN Failed(pos)
  ELSE Got(pos + 2, f[pos + 1] * ByteBase + f[pos + 2])

ReadUint32(f, pos) ==
  IF pos + 4 > Len(f) THEN Failed(pos)
  ELSE Got(pos + 4, ReadUint16(f, pos).val * Word16 + ReadUint16(f, pos + 2).val)

(* strncpy() ends at the first zero byte.                                  *)
CString(s) ==
  LET zero == {k \in DOMAIN s : s[k] = 0}
  IN  IF zero = {} THEN s ELSE SubSeq(s, 1, Min(zero) - 1)

ReadStr(f, pos) ==
  LET len == ReadUint16(f, pos)
  IN  IF ~len.ok THEN Failed(pos)
      ELSE IF len.pos + len.val > Len(f) THEN Failed(len.pos)
      ELSE Got(len.pos + len.val, CString(SubSeq(f, len.pos + 1, len.pos + len.val)))

ReadRemainlen(f, pos) ==
  LET n == Digits(f, pos)
  IN  IF n \in 1 .. 4 THEN Got(pos + n, DigitSum(f, pos, n)) ELSE Failed(pos)

IsPkgComplete(data) ==
  LET n == Digits(data, 1)
      total == 1 + n + DigitSum(data, 1, n)
  IN  IF Len(data) <= 1 THEN 0
      ELSE IF n = 0 THEN IF Len(data) > 4 THEN -1 ELSE 0
      ELSE IF n > 4 THEN -1
      ELSE IF total <= Len(data) THEN total ELSE 0

-----------------------------------------------------------------------------
(* Unpacking, after EdpPacketType has read the type.  "broken" says that   *)
(* what was read cannot be used: a pointer the caller frees was never set, *)
(* a copy ran past the packet, or an assert fails.                         *)

Unpacked(msg, broken) == [msg |-> msg, broken |-> broken]
NoMessage == <<>>

(* assert(pkg->_read_pos == pkg->_write_pos)                               *)
AtEnd(f, r) == r.pos = Len(f)

UnpackConnectResp(f) ==
  LET len  == ReadRemainlen(f, 1)
      flag == ReadByte(f, len.pos)
      rtn  == ReadByte(f, flag.pos)
  IN  IF len.ok /\ flag.ok /\ rtn.ok
      THEN Unpacked(<<CONNRESP, rtn.val>>, ~AtEnd(f, rtn))
      ELSE Unpacked(<<CONNRESP, -1>>, FALSE)

UnpackPingResp(f) ==
  LET len == ReadRemainlen(f, 1)
  IN  Unpacked(<<PINGRESP>>, len.ok /\ ~AtEnd(f, len))

(* The result is not looked at: on a failure the pointers are not set.     *)
UnpackPushdata(f) ==
  LET len  == ReadRemainlen(f, 1)
      dev  == ReadStr(f, len.pos)
      data == ReadBytes(f, dev.pos, len.val - (2 + Len(dev.val)))
  IN  IF ~len.ok \/ ~dev.ok THEN Unpacked(NoMessage, TRUE)
      ELSE IF ~data.ok THEN Unpacked(NoMessage, TRUE)
      ELSE Unpacked(<<PUSHDATA, dev.val, data.val>>, ~AtEnd(f, data))

(* cJSON_Parse: a text that is JSON begins with the byte 1.                *)
cJSON_Parse(s) == s # <<>> /\ s[1] = 1

(* A text that does not parse gives a null pointer, which may be printed   *)
(* and freed; a text that cannot be read gives none.                       *)
UnpackSavedataJson(f, pos, dev, flag) ==
  LET json == ReadStr(f, pos)
  IN  IF ~json.ok THEN Unpacked(NoMessage, TRUE)
      ELSE IF ~cJSON_Parse(json.val) THEN Unpacked(NoMessage, FALSE)
      ELSE Unpacked(<<SAVEDATA, flag, dev, json.val>>, ~AtEnd(f, json))

UnpackSavedataBin(f, pos, dev) ==
  LET desc == ReadStr(f, pos)
      len  == ReadUint32(f, desc.pos)
      bin  == ReadBytes(f, len.pos, len.val)
  IN  IF ~desc.ok \/ ~cJSON_Parse(desc.val) \/ ~len.ok THEN Unpacked(NoMessage, TRUE)
      ELSE IF ~bin.ok \/ len.val > Len(f) THEN Unpacked(NoMessage, TRUE)
      ELSE Unpacked(<<SAVEDATA, kTypeBin, dev, desc.val, bin.val>>, ~AtEnd(f, bin))

(* simple_str is NULL until the first string of this call was freed.       *)
UnpackSavedataSimpleString(f, pos, dev, freed) ==
  LET str == ReadStr(f, pos)
  IN  IF str.ok THEN Unpacked(<<SAVEDATA, kTypeString, dev, str.val>>, FALSE)
      ELSE Unpacked(NoMessage, freed)

UnpackSavedata(f, freed) ==
  LET len  == ReadRemainlen(f, 1)
      ta   == ReadByte(f, len.pos)
      str  == ReadStr(f, ta.pos)
      addr == ta.val = AddressFlag
      flag == ReadByte(f, IF addr THEN str.pos ELSE ta.pos)
      dev  == IF addr THEN <<str.val>> ELSE <<>>
  IN  IF ~len.ok \/ ~ta.ok THEN Unpacked(NoMessage, FALSE)
      ELSE IF (addr /\ ~str.ok) \/ ~flag.ok THEN Unpacked(NoMessage, FALSE)
      ELSE CASE flag.val \in {kTypeFullJson, kTypeSimpleJsonWithoutTime,
                              kTypeSimpleJsonWithTime} ->
                  UnpackSavedataJson(f, flag.pos, dev, flag.val)
             [] flag.val = kTypeBin -> UnpackSavedataBin(f, flag.pos, dev)
             [] flag.val = kTypeString ->
                  UnpackSavedataSimpleString(f, flag.pos, dev, freed)
             [] OTHER -> Unpacked(NoMessage, FALSE)

UnpackSavedataAck(f) ==
  LET len  == ReadRemainlen(f, 1)
      flag == ReadByte(f, len.pos)
      jlen == ReadUint16(f, flag.pos)
      json == ReadBytes(f, jlen.pos, jlen.val)
  IN  IF ~len.ok \/ ~flag.ok \/ ~jlen.ok THEN Unpacked(NoMessage, FALSE)
      ELSE IF ~json.ok THEN Unpacked(NoMessage, FALSE)
      ELSE Unpacked(<<SAVEACK, json.val>>, FALSE)

UnpackCmdReq(f) ==
  LET len  == ReadRemainlen(f, 1)
      ilen == ReadUint16(f, len.pos)
      id   == ReadBytes(f, ilen.pos, ilen.val)
      rlen == ReadUint32(f, id.pos)
      req  == ReadBytes(f, rlen.pos, rlen.val)
  IN  IF ~len.ok \/ ~ilen.ok THEN Unpacked(NoMessage, FALSE)
      ELSE IF ~id.ok \/ ~rlen.ok THEN Unpacked(NoMessage, FALSE)
      ELSE IF ~req.ok THEN Unpacked(NoMessage, FALSE)
      ELSE Unpacked(<<CMDREQ, id.val, req.val>>,
                    rlen.val > Len(f) \/ ~AtEnd(f, req))

-----------------------------------------------------------------------------
(* What the server writes, as the device reads it.                         *)
Frame(m) ==
  CASE m[1] = CONNRESP -> <<CONNRESP, 2, 0, m[2]>>
    [] m[1] = PINGRESP -> <<PINGRESP, 0>>
    [] m[1] = PUSHDATA -> PacketPushdata(m[2], m[3])
    [] m[1] = SAVEACK  -> <<SAVEACK>> \o WriteRemainlen(3 + Len(m[2])) \o <<0>>
                          \o WriteStr(m[2])
    [] m[1] = CMDREQ   -> <<CMDREQ>> \o WriteRemainlen(6 + Len(m[2]) + Len(m[3]))
                          \o WriteStr(m[2]) \o WriteUint32(Len(m[3])) \o m[3]
    [] m[1] = SAVEDATA /\ m[2] = kTypeBin -> PacketSavedataBinStr(m[3], m[4], m[5])
    [] m[1] = SAVEDATA /\ m[2] = kTypeString -> PacketSavedataSimpleString(m[3], m[4])
    [] OTHER -> PacketSavedataJson(m[3], m[4], m[2])

VARIABLES
  sent,       \* history: the messages the server has sent
  stream,     \* their bytes that the device has not received
  recvbuf,    \* the bytes of this recv() not yet processed
  freedStr,   \* whether simple_str was freed during this call
  handled,    \* history: the messages the device has understood
  broken,     \* history: one was not to be used
  aligned,    \* history: every recv() ended where a packet ends
  out         \* the packet the device built in the last step, if it did

edpVars == <<sent, stream, recvbuf, freedStr, handled, broken, aligned, out>>

EdpInit ==
  /\ sent = <<>> /\ stream = <<>>
  /\ recvbuf = <<>> /\ freedStr = FALSE
  /\ handled = <<>> /\ broken = FALSE /\ aligned = TRUE
  /\ out = <<>>

EdpTypeOK ==
  /\ sent \in Seq(Messages) /\ Len(sent) <= MaxSent
  /\ stream \in Seq(0 .. ByteBase - 1)
  /\ recvbuf \in Seq(0 .. ByteBase - 1) /\ Len(recvbuf) <= RecvSize
  /\ out \in Seq(0 .. ByteBase - 1)
  /\ {freedStr, broken, aligned} \subseteq BOOLEAN

ServerSends ==
  /\ Len(sent) < MaxSent
  /\ \E m \in Messages : sent' = Append(sent, m) /\ stream' = stream \o Frame(m)
  /\ out' = <<>>
  /\ UNCHANGED <<recvbuf, freedStr, handled, broken, aligned>>

(* The number of bytes of the first n messages.                            *)
Boundary(n) == FoldLeft(LAMBDA len, m : len + Len(Frame(m)), 0, SubSeq(sent, 1, n))

(* recv() returns; recv_data_process starts with fresh local variables.    *)
Recv ==
  /\ recvbuf = <<>>
  /\ \E n \in 1 .. Min({Len(stream), RecvSize}) :
       /\ recvbuf' = SubSeq(stream, 1, n)
       /\ stream' = SubSeq(stream, n + 1, Len(stream))
       /\ aligned' = (aligned /\ \E k \in 0 .. Len(sent) :
                                   Boundary(k) = Boundary(Len(sent)) - Len(stream'))
  /\ freedStr' = FALSE /\ out' = <<>>
  /\ UNCHANGED <<sent, handled, broken>>

(* Variant: the packet stays in the buffer.                                *)
ShrunkNot(buf, n) == IF Len(buf) > n THEN SubSeq(buf, 1, Len(buf) - n) ELSE <<>>

Shrunk(buf, n) == SubSeq(buf, n + 1, Len(buf))

(* One round of the loop with a packet: it is taken out, unpacked and      *)
(* acted on.                                                               *)
ProcessPacket ==
  /\ IsPkgComplete(recvbuf) > 0
  /\ LET pkg == SubSeq(recvbuf, 1, IsPkgComplete(recvbuf))
         u == CASE pkg[1] = CONNRESP -> UnpackConnectResp(pkg)
                [] pkg[1] = PINGRESP -> UnpackPingResp(pkg)
                [] pkg[1] = PUSHDATA -> UnpackPushdata(pkg)
                [] pkg[1] = SAVEDATA -> UnpackSavedata(pkg, freedStr)
                [] pkg[1] = SAVEACK  -> UnpackSavedataAck(pkg)
                [] pkg[1] = CMDREQ   -> UnpackCmdReq(pkg)
                [] OTHER -> Unpacked(NoMessage, FALSE)
     IN  /\ handled' = IF u.msg = NoMessage THEN handled ELSE Append(handled, u.msg)
         /\ broken' = (broken \/ u.broken)
         /\ freedStr' = (freedStr \/ (u.msg # NoMessage /\ u.msg[1] = SAVEDATA
                                      /\ u.msg[2] = kTypeString))
         /\ out' = IF u.msg # NoMessage /\ u.msg[1] = CMDREQ
                   THEN PacketCmdResp(u.msg[2], <<1, 2>>) ELSE <<>>
         /\ recvbuf' = Shrunk(recvbuf, IsPkgComplete(recvbuf))
  /\ UNCHANGED <<sent, stream, aligned>>

(* "need more bytes": what is left of this recv() is gone.                 *)
NeedMoreBytes ==
  /\ recvbuf # <<>> /\ IsPkgComplete(recvbuf) <= 0
  /\ recvbuf' = <<>> /\ out' = <<>>
  /\ UNCHANGED <<sent, stream, freedStr, handled, broken, aligned>>

(* A packet of Agent_cloud_process, of the sensor task or of its senders.  *)
(* Building one shares nothing with the receiver: it is enough to do it    *)
(* while nothing is on its way.                                            *)
SendsUpload ==
  /\ stream \o recvbuf = <<>>
  /\ \E f \in Uploads : out' = f
  /\ UNCHANGED <<sent, stream, recvbuf, freedStr, handled, broken, aligned>>

EdpNext == ServerSends \/ Recv \/ ProcessPacket \/ NeedMoreBytes \/ SendsUpload

EdpSpec == EdpInit /\ [][EdpNext]_edpVars

-----------------------------------------------------------------------------
(* Properties.                                                             *)

(* As long as every recv() has ended at the end of a packet, however many  *)
(* packets it brought, the device has understood exactly what the server   *)
(* sent, in order, and everything once the stream is empty.                *)
HandledAsSent ==
  aligned =>
    /\ ~broken
    /\ IsPrefix(handled, sent)
    /\ stream \o recvbuf = <<>> => handled = sent

(* Every packet the device builds announces its own length: the receiver   *)
(* finds the next packet where it begins.                                  *)
FramesDelimited == out # <<>> => IsPkgComplete(out) = Len(out)

(* The stream of packets is read and written as it is meant: the two       *)
(* together.                                                               *)
StreamSound == HandledAsSent /\ FramesDelimited
=============================================================================

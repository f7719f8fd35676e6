--------------------------- MODULE MCDeviceParts ---------------------------
(* Values for the constants of DeviceParts that a configuration cannot write. *)
EXTENDS DeviceParts

(* One message of each kind a server sends, with and without an address.   *)
MCMessages ==
  {<<CONNRESP, 0>>, <<PINGRESP>>, <<PUSHDATA, <<6>>, <<2, 0>>>>,
   <<SAVEDATA, kTypeFullJson, <<>>, <<1, 2>>>>,
   <<SAVEDATA, kTypeSimpleJsonWithTime, <<<<6>>>>, <<1>>>>,
   <<SAVEDATA, kTypeBin, <<>>, <<1>>, <<2, 0>>>>,
   <<SAVEDATA, kTypeString, <<>>, <<2>>>>,
   <<SAVEACK, <<1>>>>, <<CMDREQ, <<6, 7>>, <<2>>>>}

(* One packet of each of the functions that build one.                     *)
MCUploads ==
  {PacketConnect1(<<6>>, <<2, 3>>), PacketConnect2(<<6>>, <<>>),
   PacketPushdata(<<>>, <<2>>), PacketCmdResp(<<2>>, <<>>),
   PacketSavedataJson(<<<<6>>>>, <<1, 2>>, 1), PacketSavedataSimpleString(<<>>, <<2>>),
   PacketSavedataBinStr(<<<<6>>>>, <<1>>, <<3>>),
   PacketSavedataBin(<<>>, <<1>>, FALSE, <<2>>)}

MCChar == {"a", "b", "c", "d", "e", "."}
MCDnsName == <<"a", ".", "b", "c", "d">>

(* The name itself, a part of it, two that go on where it ends, one with a *)
(* dot in place of another character, the root; and names that end with a  *)
(* pointer.                                                                *)
Plain(labels) == [labels |-> labels, pointer |-> FALSE]
Compressed(labels) == [labels |-> labels, pointer |-> TRUE]
MCQueries ==
  {Plain(<<<<"a">>, <<"b", "c", "d">>>>), Plain(<<<<"a">>>>),
   Plain(<<<<"a">>, <<"b", "c", "d", "e">>>>), Plain(<<<<"a">>, <<"b", "c", "d">>, <<"e">>>>),
   Plain(<<<<"a">>, <<"b">>, <<"d">>>>), Plain(<<>>),
   Compressed(<<<<"a">>, <<"b", "c", "d">>>>), Compressed(<<<<"a">>>>), Compressed(<<>>)}
=============================================================================

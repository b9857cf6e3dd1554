-------------------------------- MODULE MCKit ---------------------------------
(* The kit's parts, and the encoder, for TLC, one to a behaviour: each is  *)
(* checked in its own module's terms, on the small instance given here.    *)
EXTENDS Encoder, Buddy, Slab, Packet

LOCAL INSTANCE TLC

\* The encoder's slots are alike, and no other part knows them.
SlotsAlike == Permutations(Slots)

PacketLeaf(t, v) == [type |-> t, has |-> TRUE, val |-> v]
MCLeaves ==
  {PacketLeaf(128, <<7>>), PacketLeaf(147, <<7>>), PacketLeaf(161, <<5, 6>>),
   PacketLeaf(184, <<1, 0, 1, 0, 0, 0, 0, 0, 1>>), PacketLeaf(185, <<65, 66>>),
   PacketLeaf(186, <<<<65>>, <<>>, <<66>>>>), PacketLeaf(152, <<1>>),
   [type |-> 130, has |-> FALSE, val |-> <<>>], [type |-> 0, has |-> FALSE, val |-> <<>>]}
MCWideLeaves == {PacketLeaf(161, <<5, 6>>), [type |-> 130, has |-> FALSE, val |-> <<>>]}
TlvWrites ==
  {[tag |-> 1, val |-> <<1>>], [tag |-> 2, val |-> <<7>>], [tag |-> 9, val |-> <<0>>],
   [tag |-> 16, val |-> <<65, 66>>], [tag |-> 32, val |-> <<>>], [tag |-> 5, val |-> <<3>>]}
Utf8Units == {65, 128, 143, 144, 159, 160, 191, 193, 194, 224, 237, 240, 244, 245}
EncodingLongest == [bytes |-> 4, hex |-> 4, base64url |-> 4, utf8 |-> 4]
JsonTokens ==
  {<<91>>, <<93>>, <<123>>, <<125>>, <<58>>, <<44>>, <<34, 34>>, <<49>>, <<91, 91>>, <<93, 93>>}
JsonScalars == {<<110, 117, 108, 108>>, <<45, 49>>, <<34, 92, 110, 34>>}
JsonNames   == {<<97>>, <<92, 117, 48, 48, 54, 49>>, <<98>>}
JsonNumber  == {45, 48, 49, 46, 101, 43}
JsonStrings ==
  {<<65>>, <<195, 169>>, <<92, 110>>, <<92, 117, 48, 48, 52, 49>>, <<92, 117, 100, 56, 51, 100>>,
   <<92, 117, 100, 101, 48, 48>>, <<92, 34>>}
JsonRaw     == {<<65>>, <<34>>, <<92>>, <<10>>, <<1>>, <<31>>, <<240, 159, 152, 128>>}
JsonLongest == [text |-> 5, number |-> 6, string |-> 4, raw |-> 4]

VARIABLES
  part,  \* the component the behaviour is of
  c_which, c_buf, c_head, c_len, c_cap, c_maxCap, c_marks, c_out, c_abs,
  v_data, v_sealed, v_put, v_input, v_at, v_ended, v_fault, v_got,
  n_as, n_input,
  j_as, j_parts

C == INSTANCE Collections WITH
  Room <- 5, Keys <- {1, 2, 3}, Caps <- {2, 5}, Wide <- 7, which <- c_which,
  buf <- c_buf, head <- c_head, len <- c_len, cap <- c_cap,
  maxCap <- c_maxCap, marks <- c_marks, out <- c_out, abs <- c_abs
V == INSTANCE Tlv WITH
  Writes <- TlvWrites, MostWrites <- 3, data <- v_data, sealed <- v_sealed,
  put <- v_put, input <- v_input, at <- v_at, ended <- v_ended,
  fault <- v_fault, got <- v_got
N == INSTANCE Encoding WITH
  Octets <- {0, 1, 16, 171, 255},
  Letters <- {65, 70, 97, 45, 95, 61, 56, 119}, Units <- Utf8Units,
  Longest <- EncodingLongest, as <- n_as, input <- n_input
J == INSTANCE Json WITH
  MaxDepth <- 2, Tokens <- JsonTokens, Scalars <- JsonScalars,
  Names <- JsonNames, NumberBytes <- JsonNumber, StringParts <- JsonStrings,
  RawBytes <- JsonRaw, Longest <- JsonLongest, as <- j_as, parts <- j_parts
ASSUME EncoderAssumption
ASSUME RequestsAssumption
ASSUME BuddyAssumption /\ SlabAssumption /\ HeadsEnough
ASSUME PacketAssumption
ASSUME V!TlvAssumption
ASSUME N!EncodingAssumption
ASSUME J!JsonAssumption
-----------------------------------------------------------------------------
collectionVars == <<c_which, c_buf, c_head, c_len, c_cap, c_maxCap, c_marks,
                    c_out, c_abs>>
tlvVars == <<v_data, v_sealed, v_put, v_input, v_at, v_ended, v_fault, v_got>>
encodingVars == <<n_as, n_input>>
jsonVars == <<j_as, j_parts>>

Init ==
  /\ part \in {"encoder", "buddy", "slab", "collection", "packet", "tlv",
              "encoding", "json"}
  /\ EncoderInit
  /\ BuddyInit
  /\ SlabInit
  /\ C!CollectionsInit
  /\ part # "collection" => c_which = "arena" /\ c_maxCap = 2
  /\ PacketInit
  /\ part # "packet" => DOMAIN w.buf = 0 .. 14
  /\ V!TlvInit
  /\ N!EncodingInit
  /\ part # "encoding" => n_as = "bytes"
  /\ J!JsonInit
  /\ part # "json" => j_as = "text"

Next ==
  /\ UNCHANGED part
  /\ IF part = "encoder" THEN EncoderNext ELSE UNCHANGED encoderVars
  /\ IF part = "buddy" THEN BuddyNext ELSE UNCHANGED buddyVars
  /\ IF part = "slab" THEN SlabNext ELSE UNCHANGED slabVars
  /\ IF part = "collection" THEN C!CollectionsNext ELSE UNCHANGED collectionVars
  /\ IF part = "packet" THEN PacketNext ELSE UNCHANGED packetVars
  /\ IF part = "tlv" THEN V!TlvNext ELSE UNCHANGED tlvVars
  /\ IF part = "encoding" THEN N!EncodingNext ELSE UNCHANGED encodingVars
  /\ IF part = "json" THEN J!JsonNext ELSE UNCHANGED jsonVars

kitVars == <<part, encoderVars, buddyVars, slabVars, collectionVars,
             packetVars, tlvVars, encodingVars, jsonVars>>
Spec == Init /\ [][Next]_kitVars
-----------------------------------------------------------------------------
\* A deque and a list hold what was put in, in order, a heap with its
\* first the least; heapsort sorts any input; an arena stays within its
\* most.
HoldWhatWasPut ==
  part = "collection" =>
    /\ C!CollectionsTypeOK
    /\ C!KeepsOrder
    /\ C!HeapHolds
    /\ C!SortsAll
    /\ C!ArenaBounds
\* What is written reads back, the writer and the one-call encoder write
\* the same bytes, and no read of a damaged packet leaves it. A reader of
\* tagged values stops at the end, or where the list was cut, with what
\* was written before.
FormatsRead ==
  /\ part = "packet" =>
       /\ PacketTypeOK
       /\ ReadsBack
       /\ EncodersAgree
       /\ ReadsStayWithin
  /\ part = "tlv" =>
       /\ V!TlvTypeOK
       /\ V!StopsTruly
\* Bytes encoded decode to themselves, no two texts decode to the same
\* bytes but for case in hex, is_utf8 takes exactly what Unicode does, and
\* utf8_lossy gives UTF-8 and keeps what is.
TextsDecode ==
  part = "encoding" =>
    /\ N!BytesReadBack
    /\ N!OneTextEach
    /\ N!Utf8Exact
    /\ N!LossyIsUtf8
\* read_json takes exactly the texts of the grammar, a number is as the
\* grammar says and beyond_doubles as its value, a string reads as what
\* its escapes stand for, items and fields as they were written.
JsonRead ==
  part = "json" =>
    /\ J!CheckedByGrammar
    /\ J!NumbersByGrammar
    /\ J!StringsDecode
    /\ J!DocumentsRead
=============================================================================

-------------------------- MODULE MCExternalProtocol --------------------------
(* Uploads of two records and tops of two for TLC: names without a character,   *)
(* with plain ones, with up to three wide ones; amounts that fit, that have     *)
(* more than one byte, that look like a type, and that do not fit.              *)
EXTENDS ExternalProtocol

n == "narrow"
w == "wide"

MCRecords ==
    { <<<<n, n>>, 3>>, <<<<>>, BASE + 1>>, <<<<w>>, 0>>, <<<<w, n, w>>, 9>>, <<<<w, w, n, w>>, 4>>,
      <<<<n>>, BASE^UINT32_SIZE>>, <<<<n>>, -1>> }

MCScripts ==
    { <<Message(FRUIT_RECORD, <<q>>), Message(FRUIT_RECORD, <<r>>), Message(END_OF_RECORDS, <<>>)>> :
        q, r \in MCRecords }
    \cup { <<Message(FRUIT_TOP, <<q, r>>)>> : q, r \in MCRecords }
    \cup { <<Message(FRUIT_TOP, <<>>)>> }

=============================================================================

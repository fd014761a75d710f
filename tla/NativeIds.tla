----------------------------- MODULE NativeIds -----------------------------
(***************************************************************************)
(* The identifiers that native text holds (byakugan/native_ids.py): volume   *)
(* GUIDs, MAC addresses and device serials.  The text is the sequence of the  *)
(* renderings it holds; the constant tells which of them is an identifier      *)
(* and of what, so that two renderings of one device have one id.              *)
(***************************************************************************)
EXTENDS Row

CONSTANT CanonicalId   \* renderings to ids; a random GUID node or a minted instance id has none

\* Where the text of an identifier column is; a literal MAC comes before the
\* MACs in GUID nodes.
IdentifierText == [volume_guid |-> <<"native.volumes">>,
                   mac_address |-> <<"native.macs", "native.guids">>,
                   device_serial |-> <<"native.serials">>]

\* The identifiers in the order of their first appearance.
Mined(row, column) ==
  LET text == FlattenSeq([k \in DOMAIN IdentifierText[column] |->
                            OrElse(row, IdentifierText[column][k], <<>>)])
      ids == SelectSeq(text, LAMBDA v : v \in DOMAIN CanonicalId)
  IN  Distinct([k \in DOMAIN ids |-> CanonicalId[ids[k]]])

\* The column if it holds an identifier, otherwise what the native text holds.
Identifiers(row, column) ==
  IF Get(row, column) \in DOMAIN CanonicalId THEN <<CanonicalId[row[column]]>>
  ELSE Mined(row, column)
=============================================================================

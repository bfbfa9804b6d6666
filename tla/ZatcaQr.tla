------------------------------ MODULE ZatcaQr ------------------------------
(***************************************************************************)
(* The payload of an invoice's QR code: five fields, each as a tag, the     *)
(* number of its bytes and the bytes.  A text is a sequence of characters,  *)
(* a character the sequence of its UTF-8 bytes; base64 is left out.  What   *)
(* may throw gives a set: the result alone, or nothing.                     *)
(***************************************************************************)
EXTENDS Naturals, Sequences, SequencesExt

CONSTANT MaxLength   \* the largest number one byte can hold, 255

ZatcaTags == <<"sellerName", "vatRegistrationNumber", "invoiceTimestamp",
               "invoiceTotalWithVat", "vatTotal">>

Bytes(text) == FlattenSeq(text)

\* Mutant: the characters are counted, not the bytes.
MutantFits(text) == Len(text) <= MaxLength

Fits(text) == Len(Bytes(text)) <= MaxLength

\* A number that does not fit its byte is cut off.
EncodeTlv(tag, text) ==
  <<tag, Len(Bytes(text)) % (MaxLength + 1)>> \o Bytes(text)

BuildPayload(fields) ==
  IF \A tag \in DOMAIN ZatcaTags : Fits(fields[ZatcaTags[tag]])
  THEN {FlattenSeq([tag \in DOMAIN ZatcaTags |-> EncodeTlv(tag, fields[ZatcaTags[tag]])])}
  ELSE {}

\* The values from each offset on; of two with the same tag the last one wins.
ValuesFrom(buffer) ==
  LET values[offset \in 0 .. Len(buffer)] ==
        IF offset = Len(buffer) THEN {<<>>}
        ELSE IF offset + 2 > Len(buffer) \/ offset + 2 + buffer[offset + 2] > Len(buffer) THEN {}
        ELSE LET next == offset + 2 + buffer[offset + 2]
             IN  {[tag \in DOMAIN later \cup {buffer[offset + 1]} |->
                     IF tag \in DOMAIN later THEN later[tag]
                     ELSE SubSeq(buffer, offset + 3, next)] : later \in values[next]}
  IN  values

ReadTlvs(buffer) == ValuesFrom(buffer)[0]

\* A missing tag and an empty value are the same to the decoder.
DecodePayload(buffer) ==
  {[tag \in DOMAIN ZatcaTags |-> values[tag]] : values \in
     {v \in ReadTlvs(buffer) :
        \A tag \in DOMAIN ZatcaTags : tag \in DOMAIN v /\ v[tag] # <<>>}}
=============================================================================

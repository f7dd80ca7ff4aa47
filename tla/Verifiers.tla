----------------------------- MODULE Verifiers -----------------------------
(***************************************************************************)
(* From the journal of the guest to what a person reads: the proof file    *)
(* the host writes, the three programs that verify its seal, and the page  *)
(* that shows it (src/zkvm/host/src/main.rs 394-426 and 975-1143,          *)
(* src/zkvm/risc0-verifier/src/main.rs, src/verifier.html).                *)
(*                                                                         *)
(* A seal is the receipt it encodes: its kind, the image id of the program *)
(* that ran and the journal it committed, as in Guest.  A word of an image *)
(* id has two hexadecimal digits here, where the code has eight.           *)
(***************************************************************************)
EXTENDS Naturals, Sequences

CONSTANT GuestId   \* GPS_GUEST_ID, a sequence of words

ASSUME VerifiersAssumption == GuestId \in Seq(0..255) /\ GuestId # <<>>

HexNames == <<"0", "1", "2", "3", "4", "5", "6", "7", "8", "9", "a", "b", "c", "d", "e", "f">>
HexValue == [c \in {HexNames[k] : k \in 1..16} |-> CHOOSE n \in 0..15 : HexNames[n + 1] = c]

\* The words of an image id, one after the other.
ImageHex(id) ==
  [k \in 1..(2 * Len(id)) |->
     LET word == id[(k + 1) \div 2]
     IN HexNames[(IF k % 2 = 1 THEN word \div 16 ELSE word % 16) + 1]]

NoId == <<>>

\* Mutant: the digits of a word are taken in the order of its bytes in memory.
HexToImageIdSwapped(hex) ==
  [n \in 1..(Len(hex) \div 2) |-> 16 * HexValue[hex[2 * n]] + HexValue[hex[2 * n - 1]]]

\* hex_to_image_id of the stand-alone verifier.
HexToImageId(hex) ==
  IF Len(hex) # 2 * Len(GuestId) THEN NoId
  ELSE [n \in 1..Len(GuestId) |-> 16 * HexValue[hex[2 * n - 1]] + HexValue[hex[2 * n]]]

\* default_prover: under RISC0_DEV_MODE it makes a receipt with no proof in it.
Proved(journal, devMode) ==
  [kind |-> IF devMode THEN "fake" ELSE "stark", image |-> GuestId, journal |-> journal]

\* receipt.verify: such a receipt verifies only under RISC0_DEV_MODE.
Verifies(receipt, id, devMode) ==
  receipt.image = id /\ (receipt.kind = "stark" \/ devMode)

\* What is written of one field: nothing of where it comes from.
Statement(result) ==
  [label |-> result.label, rule |-> result.rule, predicate |-> result.predicate]

Statements(journal) == [k \in DOMAIN journal.results |-> Statement(journal.results[k])]

\* build_output_json, for a proof made under devMode.
BuildOutputJson(receipt, devMode) ==
  LET first == receipt.journal.header[1].result IN
  [seal |-> receipt, image_id |-> ImageHex(receipt.image), dev_mode |-> devMode,
   domain |-> first.domain, url |-> first.url, session |-> first.session,
   anchor |-> first.anchor, body |-> first.body,
   field_results |-> Statements(receipt.journal)]

-----------------------------------------------------------------------------
(* A verifier is given a proof file, or the bare seal of one *)

Bare(file) == [seal |-> file.seal]

\* The mark the file carries; a bare seal has none.
MarkOf(input) == "dev_mode" \in DOMAIN input /\ input.dev_mode

Refused == [valid |-> FALSE, statements |-> <<>>, marked |-> FALSE]

\* What is stated of a seal that verifies is read from its own journal.
VerifyAgainst(input, id, devMode) ==
  IF Verifies(input.seal, id, devMode)
  THEN [valid |-> TRUE, statements |-> Statements(input.seal.journal), marked |-> MarkOf(input)]
  ELSE Refused

\* run_verify.
RunVerify(input, devMode) == VerifyAgainst(input, GuestId, devMode)

\* handle_http_conn: the service says which program it verifies, and verifies.
ServiceId == ImageHex(GuestId)
VerifyServe(input, devMode) == VerifyAgainst(input, GuestId, devMode)

\* main of risc0-verifier: asked is the value of --image-id, or none; it takes no
\* bare seal.
Risc0Verifier(input, asked, devMode) ==
  IF "image_id" \notin DOMAIN input THEN Refused
  ELSE VerifyAgainst(input, IF asked = NoId THEN GuestId ELSE HexToImageId(asked), devMode)

\* The verdict of the page: the service's, or that of the file on itself.  known
\* are the image ids the page was written with; every statement of a journal is true.
PageVerdict(file, reachable, answer, known) ==
  IF reachable THEN (IF answer.valid THEN "verified" ELSE "failed")
  ELSE IF file.image_id \in known THEN "journal checks passed" ELSE "program mismatch"
=============================================================================

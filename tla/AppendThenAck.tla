--------------------------- MODULE AppendThenAck ---------------------------
(***************************************************************************)
(* What the output and the checkpoint of the "detail" phase promise, apart *)
(* from workers, retries and channels: an append-only list of rows and an  *)
(* append-only list of acknowledged items.  A row is emitted for one item  *)
(* that is not acknowledged, and the item is then either acknowledged or   *)
(* abandoned (the process died): at least once, never again once done.     *)
(* Starting over forgets the acknowledgements first, then the rows.        *)
(* DetailCrawl and PddiktiDetail implement it.                             *)
(***************************************************************************)
EXTENDS Sequences, SequencesExt

CONSTANT Items

VARIABLES
  rows,   \* emitted rows
  acks,   \* acknowledged items
  open    \* the item whose row is out and whose acknowledgement is due

logVars == <<rows, acks, open>>

LogInit == rows = <<>> /\ acks = <<>> /\ open = {}

Emit(x) ==
  /\ open = {}
  /\ x \notin ToSet(acks)
  /\ rows' = Append(rows, x)
  /\ open' = {x}
  /\ UNCHANGED acks

Ack(x) ==
  /\ open = {x}
  /\ acks' = Append(acks, x)
  /\ open' = {}
  /\ UNCHANGED rows

Abandon == open' = {} /\ UNCHANGED <<rows, acks>>

ForgetAcks ==
  /\ open = {}
  /\ acks' = <<>>
  /\ UNCHANGED <<rows, open>>

ForgetRows ==
  /\ open = {} /\ acks = <<>>
  /\ rows' = <<>>
  /\ UNCHANGED <<acks, open>>

LogNext ==
  \/ \E x \in Items : Emit(x) \/ Ack(x)
  \/ Abandon \/ ForgetAcks \/ ForgetRows

LogSpec == LogInit /\ [][LogNext]_logVars
=============================================================================

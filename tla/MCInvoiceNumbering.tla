------------------------- MODULE MCInvoiceNumbering -------------------------
(***************************************************************************)
(* Small instances of InvoiceNumbering, with the texts spelled out: the     *)
(* default format, one whose texts meet it ("1-<date>-0002" is sequence 2   *)
(* by the default, and sequence 1 by Meeting, under the prefix "1"), and    *)
(* one that validate_invoice_number_format turns away.                      *)
(***************************************************************************)
EXTENDS InvoiceNumbering, Sequences, TLC

Standard == "{prefix}-{date}-{sequence:04d}"
Meeting == "{sequence}-{date}-0002"
Unknown == "{prefix}-{year}"

MCFields(f) ==
    CASE f = Standard -> Placeholders
      [] f = Meeting  -> {"date", "sequence"}
      [] f = Unknown  -> {"prefix", "year"}

MCFormatted(f, p, d, n) ==
    CASE f = Standard -> p \o "-" \o ToString(d) \o "-000" \o ToString(n)
      [] f = Meeting  -> ToString(n) \o "-" \o ToString(d) \o "-0002"
      [] f = Unknown  -> Failure

\* Unknown falls back to Standard.
MCFormats == {Meeting, Unknown}
MCPrefixes == {"1"}
\* One call is made on another day than the rest.
MCDay == LET other == CHOOSE r \in Requests : TRUE
         IN [r \in Requests |-> IF r = other THEN 2 ELSE 1]
MCSameDay == [r \in Requests |-> 1]
MCStandard == {Standard}
MCNoPrefix == {""}

\* The instance's formats tell its counter values, under one setting, and do
\* not across two.
ASSUME InstanceTellsSequence ==
    /\ \A f \in {Standard, Meeting}, d, e \in 1..2, m, n \in 1..3 :
           MCFormatted(f, "1", d, m) = MCFormatted(f, "1", e, n) => m = n
    /\ MCFormatted(Meeting, "1", 1, 1) = MCFormatted(Standard, "1", 1, 2)
=============================================================================

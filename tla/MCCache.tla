------------------------------ MODULE MCCache ------------------------------
(* The answers: success, no data, denial, delegation, an error, a zone     *)
(* transfer, an update, a truncated and a mismatched reply, an expired     *)
(* signature, TTLs of zero, inside and beyond the limits, no records.      *)
EXTENDS Cache, TLC

Plain == [opcode |-> "query", rcode |-> "success", xfr |-> FALSE, badsig |-> FALSE, answer |-> TRUE,
          soa |-> FALSE, ns |-> FALSE, rrs |-> {2, 3}, truncated |-> FALSE, match |-> TRUE]
NXDomain == [Plain EXCEPT !.rcode = "nxdomain", !.answer = FALSE, !.soa = TRUE]

MCMessages ==
    {Plain, NXDomain, [Plain EXCEPT !.rrs = {0, 9}], [Plain EXCEPT !.rrs = {9}],
     [Plain EXCEPT !.answer = FALSE, !.ns = TRUE],
     [NXDomain EXCEPT !.rcode = "success", !.rrs = {9}],
     [NXDomain EXCEPT !.soa = FALSE], [Plain EXCEPT !.opcode = "update"],
     [Plain EXCEPT !.opcode = "notify"], [Plain EXCEPT !.xfr = TRUE], [Plain EXCEPT !.badsig = TRUE],
     [Plain EXCEPT !.truncated = TRUE], [Plain EXCEPT !.match = FALSE],
     [Plain EXCEPT !.answer = FALSE, !.rrs = {}]}

Symmetry == Permutations(Queries)
=============================================================================

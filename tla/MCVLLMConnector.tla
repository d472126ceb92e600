-------------------------- MODULE MCVLLMConnector --------------------------
(* Small engines for VLLMConnector.                                         *)
EXTENDS VLLMConnector

Base == [C |-> 2, B |-> 2, plen |-> <<4, 5>>, total |-> <<5, 6>>, share |-> 4, budget |-> 3,
         role |-> "kv_both", partial |-> FALSE, decode |-> FALSE, layer |-> FALSE,
         warm |-> {0}, bumps |-> 1, cap |-> 4, may |-> {}]

\* A shared prefix and chunked prefill, preempted; partial chunks with a warm
\* vLLM cache, decode tokens saved; a store of two chunks that others evict.
Plain == {Base,
    [Base EXCEPT !.partial = TRUE, !.decode = TRUE, !.warm = {0, 2}, !.bumps = 2],
    [Base EXCEPT !.cap = 2, !.may = {"evict"}, !.plen = <<4, 4>>, !.total = <<6, 4>>],
    [Base EXCEPT !.layer = TRUE, !.cap = 3, !.may = {"evict"}]}
\* Loads that fail; forced removals; timeouts and aborts; an unhealthy or frozen
\* engine; the roles.
Faults == {
    [Base EXCEPT !.may = {"fail"}, !.plen = <<6, 7>>, !.total = <<6, 7>>, !.share = 6, !.budget = 7],
    [Base EXCEPT !.may = {"fail"}, !.B = 8, !.plen = <<4, 4>>, !.total = <<4, 4>>, !.budget = 7],
    [Base EXCEPT !.may = {"force"}, !.partial = TRUE, !.plen = <<3, 4>>, !.total = <<3, 5>>,
                 !.share = 3],
    [Base EXCEPT !.may = {"late", "abort"}, !.plen = <<4, 3>>, !.total = <<4, 4>>],
    [Base EXCEPT !.may = {"sick", "freeze"}, !.plen = <<2, 4>>, !.total = <<2, 4>>],
    [Base EXCEPT !.may = {"sick", "freeze"}, !.layer = TRUE],
    [Base EXCEPT !.may = {"force"}, !.layer = TRUE],
    [Base EXCEPT !.role = "kv_producer", !.layer = TRUE],
    [Base EXCEPT !.role = "kv_producer", !.warm = {0, 2}],
    [Base EXCEPT !.role = "kv_consumer"]}
AllModes == Plain \cup Faults
=============================================================================

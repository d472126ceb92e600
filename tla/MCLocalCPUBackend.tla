-------------------------- MODULE MCLocalCPUBackend --------------------------
(* Two-chunk prefixes over three keys, on a hot cache of two chunk buffers.  *)
EXTENDS LocalCPUBackend

CONSTANTS k1, k2, k3

ChainRequests == {<<k1, k2>>, <<k3>>}

Mode(policy, active, admin) == [policy |-> policy, active |-> active, admin |-> admin]
SafeModes == {Mode("LRU", Stores \cup Lookups \cup Peers, {}),
              Mode("LRU", Stores \cup Lookups \cup Loads, {}),
              Mode("MRU", Stores \cup Lookups, {}),
              Mode("FIFO", Stores \cup Lookups, {}),
              Mode("LFU", Stores \cup Lookups, {"remove", "clear"})}
=============================================================================

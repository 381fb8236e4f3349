--------------------------- MODULE MCStateTransfer ---------------------------
EXTENDS StateTransfer

MCWrites == [n \in 1..MaxSeqno |-> CASE n = 1 -> {0}
                                     [] n = 2 -> {1}
                                     [] n = 5 -> {0}
                                     [] n = 6 -> {1, 2}
                                     [] n = 8 -> {2}
                                     [] OTHER -> {}]
=============================================================================

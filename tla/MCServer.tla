------------------------------ MODULE MCServer ------------------------------
(* Instances of Server for TLC.                                              *)
EXTENDS Server

CONSTANTS a, b, w,          \* serials; w is the wide one where there is one
          rest, grpc,       \* clients
          e1, e2            \* export goroutines

OneSerial == {{a}}
WithEmpty == {{}, {a}}
WithWide == {{a}, {w}}
=============================================================================

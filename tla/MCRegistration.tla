--------------------------- MODULE MCRegistration ---------------------------
(* An instance of Registration for TLC: registrations that were saved by   *)
(* this firmware, and by others with fewer, as many and more bytes.        *)
EXTENDS Registration

MCBlobs == {[version |-> 1, size |-> 400], [version |-> 1, size |-> 380],
            [version |-> 0, size |-> 400], [version |-> 2, size |-> 420]}
=============================================================================

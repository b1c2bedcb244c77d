-------------------------------- MODULE MCIsoTp --------------------------------
(* The link for model checking: "a" sends two messages, of one frame or of   *)
(* three, to "b", which asks for them one frame at a time and a tick apart;  *)
(* "b" sends one, and its longer one is too long for "a".                    *)
EXTENDS IsoTp

Each(x, y) == [e \in Ends |-> IF e = "a" THEN x ELSE y]
MCLengths == Each({1, 3}, {2, 3})
MCRxSize == Each(2, 3)
MCBlockSize == Each(0, 1)
MCStMin == Each(0, 1)
MCMaxSent == Each(2, 1)
=============================================================================

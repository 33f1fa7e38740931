--------------------------- MODULE MCTftpTransfer ---------------------------
(* Small files for TftpTransfer: "cfg" ends with a short block, "bin" is one *)
(* full block exactly.                                                     *)
EXTENDS TftpTransfer

Files == {"cfg", "bin"}
Full == [f \in Files |-> 1]
Tails == [f \in Files |-> f = "cfg"]
Times == {3, 12}

(* A network that repeats and reorders, and one that only loses.           *)
Adverse == [run |-> 3, datagrams |-> 5, losses |-> 0, duplicates |-> 1,
            fetches |-> 2, prompt |-> FALSE]
Lossy == [run |-> 12, datagrams |-> 12, losses |-> 2, duplicates |-> 0,
          fetches |-> 2, prompt |-> TRUE]
Faultless == [run |-> 12, datagrams |-> 8, losses |-> 0, duplicates |-> 0,
              fetches |-> 1, prompt |-> TRUE]

Mixed == {Adverse, Lossy}
Perfect == {Faultless}
===============================================================================

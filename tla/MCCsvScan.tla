----------------------------- MODULE MCCsvScan -----------------------------
(***************************************************************************)
(* Every file of at most MaxSize bytes.                                    *)
(***************************************************************************)
EXTENDS CsvScan

CONSTANT MaxSize

MCFiles ==
    UNION {{[size |-> s, ends |-> E \union ({s} \ {0}), header |-> h] :
               E \in SUBSET (1 .. s - 1), h \in BOOLEAN} : s \in 0 .. MaxSize}
=============================================================================

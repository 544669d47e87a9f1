------------------------------ MODULE MCIoLoop ------------------------------
(* Instances of IoLoop for TLC.                                            *)
EXTENDS IoLoop, TLC

WithCallback == [func : {TRUE}, clean : BOOLEAN]
WithClean == [func : BOOLEAN, clean : {TRUE}]

(* Addresses are only compared.                                            *)
BlockSymmetry == Permutations(Blocks)
=============================================================================

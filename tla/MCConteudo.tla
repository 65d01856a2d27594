---------------------------- MODULE MCConteudo ----------------------------
(* Small instances of Conteudo, with the same requests in every area.      *)
EXTENDS Conteudo, TLC

MCAreas == {"listas", "colecoes", "habitos", "agenda"}
OnlyHabitos == {"habitos"}
MCDays == 1 .. 3
MCRegistrados == {{}, {1, 3}}

Symmetry == Permutations(Requests)

=============================================================================

---- MODULE RxParseMC ----
(* The numbers that are printed: of one, two and three digits, and negative. *)
EXTENDS RxParse

SomeNumbers == {-5, 0, 7, 10, 16, 99, 100, 255}
====

------------------------------ MODULE MCGetter ------------------------------
(* GetterCorrelation on a small instance: two player getters beside a census *)
(* whose task is replaced when the link comes back.                          *)
EXTENDS GetterCorrelation

=============================================================================

---------------------------- MODULE MCPaginate ----------------------------
(* Collections of up to seven rows in pages of one to three, so that first, *)
(* middle, full last, short last and empty pages all occur; --limit from 0  *)
(* to past a page boundary.                                                 *)
EXTENDS Paginate

MCLimits == {None, 0, 1, 3, 4}
=============================================================================

------------------------------ MODULE Transpose ------------------------------
(***************************************************************************)
(* The transpose functions of src/lab04_cache/trans.c: the cache-blocked   *)
(* transpose_32, transpose_64 and transpose_6167 reached through           *)
(* transpose_submit, and the row-wise baseline trans.  One step is one     *)
(* iteration of the function's outer loop (a block <<bx, by>>, or a row i  *)
(* of trans); the inner loops of that iteration are folded in code order.  *)
(*                                                                         *)
(* A is int A[N][M] and B is int B[M][N], both stored row by row, so the   *)
(* code's index arithmetic is kept: a write B[r][c] goes to offset r*N + c *)
(* and, when that lies past the M*N cells of B, to the caller's memory     *)
(* after B (outside).  The cell values of A are all distinct, so a         *)
(* function that only moves values, as these do, transposes every matrix   *)
(* exactly when it transposes this one.                                    *)
(***************************************************************************)
EXTENDS Integers, Sequences, TLC

CONSTANTS Cases   \* the driver's calls: records [f, M, N], f \in {"submit", "trans"}

ASSUME \A r \in Cases : r.f \in {"submit", "trans"} /\ r.M > 0 /\ r.N > 0

VARIABLES
  run,      \* the call being executed
  blk,      \* the next iteration of the outer loop (1-based)
  B,        \* the cells of B, by offset
  outside,  \* words written past the end of B, by offset
  temp      \* transpose_6167's temp, which lives across its loop iterations

vars == <<run, blk, B, outside, temp>>

Blank == -1      \* what B holds before the call
Junk == -2       \* an uninitialised int, or a word read past the end of A
AVal(off) == off \* A's cell at offset off: all distinct

(* The body a call runs (transpose_submit, lines 28-44, dispatches on the  *)
(* size; any other size only prints).                                      *)
Kind(r) ==
  CASE r.f = "trans"                -> "trans"
    [] r.M = 32 /\ r.N = 32         -> "t32"
    [] r.M = 64 /\ r.N = 64         -> "t64"
    [] r.M = 61 /\ r.N = 67         -> "t6167"
    [] OTHER                        -> "none"

(* Loop index sequences: for (i = a; i < b; i += d), and i from a down to  *)
(* b, and the iterations of two nested loops in order.                     *)
For(a, b, d) == [k \in 1 .. ((b - a + d - 1) \div d) |-> a + (k - 1) * d]
Down(a, b) == [k \in 1 .. (a - b + 1) |-> a - k + 1]
Nest(xs, ys) ==
  [k \in 1 .. Len(xs) * Len(ys) |-> <<xs[(k - 1) \div Len(ys) + 1],
                                      ys[((k - 1) % Len(ys)) + 1]>>]
MinOf(x, y) == IF x < y THEN x ELSE y

(* The outer iterations of each function: blocks <<bx, by>> (bx outer),   *)
(* or rows <<i, 0>> of trans.                                              *)
\* Mutant: transpose_32's outer loop as for (bx = 0; bx <= 32; bx += 8).
ItersPastEdge == Nest(For(0, 33, 8), For(0, 32, 8))

Iters32 == Nest(For(0, 32, 8), For(0, 32, 8))
Iters64 == Nest(For(0, 64, 8), For(0, 64, 8))
Iters6167 == Nest(For(0, 61, 16), For(0, 67, 16))
ItersTrans(r) == [k \in 1 .. r.N |-> <<k - 1, 0>>]

Iters(r) ==
  CASE Kind(r) = "t32"   -> Iters32
    [] Kind(r) = "t64"   -> Iters64
    [] Kind(r) = "t6167" -> Iters6167
    [] Kind(r) = "trans" -> ItersTrans(r)
    [] OTHER             -> <<>>

(* ---------------------------------------------------------------------- *)
(* The memory the code reads and writes: s = [M, N, B, out, temp].         *)
(* ---------------------------------------------------------------------- *)
RdA(s, i, j) ==
  IF i * s.M + j \in 0 .. s.M * s.N - 1 THEN AVal(i * s.M + j) ELSE Junk

RdB(s, r, c) ==
  LET off == r * s.N + c
  IN  CASE off \in DOMAIN s.B   -> s.B[off]
        [] off \in DOMAIN s.out -> s.out[off]
        [] OTHER                -> Junk

WrB(s, r, c, v) ==
  LET off == r * s.N + c
  IN  IF off \in DOMAIN s.B THEN [s EXCEPT !.B[off] = v]
      ELSE [s EXCEPT !.out = (off :> v) @@ s.out]

\* B[r][c] = A[i][j]
Move(s, r, c, i, j) == WrB(s, r, c, RdA(s, i, j))

(* swap (lines 223-227), also written out inline in transpose_32.         *)
swap(s, x1, y1, x2, y2) == WrB(WrB(s, x1, y1, RdB(s, x2, y2)), x2, y2, RdB(s, x1, y1))

(* A loop nest: body(s, p) for each index tuple p of ps in order.  The     *)
(* test of DOMAIN s only makes TLC evaluate each iteration's memory before *)
(* the next one (a machine state is a record and never empty).             *)
RECURSIVE LoopFrom(_, _, _, _)
LoopFrom(s, ps, body(_, _), k) ==
  IF k > Len(ps) \/ DOMAIN s = {} THEN s
  ELSE LoopFrom(body(s, ps[k]), ps, body, k + 1)

ForEach(s, ps, body(_, _)) == LoopFrom(s, ps, body, 1)

(* ---------------------------------------------------------------------- *)
(* transpose_32 (lines 51-96): one 8x8 block, as four 4x4 quarter moves    *)
(* and a swap of two quarters inside B.                                    *)
(* ---------------------------------------------------------------------- *)
T32LowerLeft(s, bx, by) ==
  ForEach(s, Nest(Down(7, 4), Down(3, 0)),
          LAMBDA a, p : Move(a, by + p[2], bx + p[1], bx + p[1], by + p[2]))

T32LowerRight(s, bx, by) ==
  ForEach(s, Nest(Down(7, 4), For(4, 8, 1)),
          LAMBDA a, p : Move(a, by + p[2] - 4, bx + p[1] - 4, bx + p[1], by + p[2]))

T32UpperRight(s, bx, by) ==
  ForEach(s, Nest(For(0, 4, 1), For(4, 8, 1)),
          LAMBDA a, p : Move(a, by + p[2], bx + p[1], bx + p[1], by + p[2]))

T32UpperLeft(s, bx, by) ==
  ForEach(s, Nest(For(0, 4, 1), For(0, 4, 1)),
          LAMBDA a, p : Move(a, by + p[2] + 4, bx + p[1] + 4, bx + p[1], by + p[2]))

T32Swap(s, bx, by) ==
  ForEach(s, Nest(For(0, 4, 1), For(0, 4, 1)),
          LAMBDA a, p : swap(a, by + p[1], bx + p[2], by + p[1] + 4, bx + p[2] + 4))

transpose_32(s, bx, by) ==
  T32Swap(T32UpperLeft(T32UpperRight(T32LowerRight(T32LowerLeft(s, bx, by),
          bx, by), bx, by), bx, by), bx, by)

(* ---------------------------------------------------------------------- *)
(* transpose_64 (lines 101-184): each half (offset 0, then 4) of an 8x8    *)
(* block is moved with rows crossed and then sorted out by swaps inside B; *)
(* two last swap loops exchange halves of quadrants 2 and 3.               *)
(* ---------------------------------------------------------------------- *)
T64Cross(s, bx, by, off) ==
  ForEach(ForEach(s, Nest(For(off, off + 2, 1), For(0, 8, 1)),
                  LAMBDA a, p : Move(a, by + p[1] + 2, bx + p[2], bx + p[1], by + p[2])),
          Nest(For(off + 2, off + 4, 1), For(0, 8, 1)),
          LAMBDA a, p : Move(a, by + p[1] - 2, bx + p[2], bx + p[1], by + p[2]))

T64Uncross(s, bx, by, off) ==
  ForEach(s, Nest(For(off, off + 2, 1), For(0, 8, 1)),
          LAMBDA a, p : swap(a, by + p[1], bx + p[2], by + p[1] + 2, bx + p[2]))

(* Mutant: the triangle swaps without their x-offset > y guards.          *)
T64TrianglesUnguarded(s, bx, by, off) ==
  ForEach(ForEach(s, Nest(For(off, off + 4, 1), For(0, 4, 1)),
                  LAMBDA a, p : swap(a, by + p[1], bx + p[2],
                                     by + p[2] + off, bx + p[1] - off)),
          Nest(For(off, off + 4, 1), For(4, 8, 1)),
          LAMBDA a, p : swap(a, by + p[1], bx + p[2],
                             by + p[2] - 4 + off, bx + p[1] + 4 - off))

T64Triangles(s, bx, by, off) ==
  ForEach(ForEach(s, Nest(For(off, off + 4, 1), For(0, 4, 1)),
                  LAMBDA a, p : IF p[1] - off > p[2]
                                  THEN swap(a, by + p[1], bx + p[2],
                                            by + p[2] + off, bx + p[1] - off)
                                  ELSE a),
          Nest(For(off, off + 4, 1), For(4, 8, 1)),
          LAMBDA a, p : IF p[1] - off > p[2] - 4
                          THEN swap(a, by + p[1], bx + p[2],
                                    by + p[2] - 4 + off, bx + p[1] + 4 - off)
                          ELSE a)

T64RowSwap(s, bx, by, off) ==
  ForEach(s, Nest(For(off, off + 2, 1), For(4 - off, 8 - off, 1)),
          LAMBDA a, p : swap(a, by + p[1], bx + p[2], by + p[1] + 2, bx + p[2]))

T64Half(s, bx, by, off) ==
  T64RowSwap(T64Triangles(T64Uncross(T64Cross(s, bx, by, off), bx, by, off),
             bx, by, off), bx, by, off)

T64Quadrants(s, bx, by) ==
  ForEach(ForEach(s, Nest(For(4, 6, 1), For(0, 4, 1)),
                  LAMBDA a, p : swap(a, by + p[1], bx + p[2], by + p[1] - 2, bx + p[2] + 4)),
          Nest(For(6, 8, 1), For(0, 4, 1)),
          LAMBDA a, p : swap(a, by + p[1], bx + p[2], by + p[1] - 6, bx + p[2] + 4))

transpose_64(s, bx, by) ==
  T64Quadrants(T64Half(T64Half(s, bx, by, 0), bx, by, 4), bx, by)

(* ---------------------------------------------------------------------- *)
(* transpose_6167 (lines 191-218): 16x16 blocks cut at the matrix edge;    *)
(* a diagonal cell is kept in temp and written once its row is done.       *)
(* ---------------------------------------------------------------------- *)
T6167Cell(s, bx, by, y, x) ==
  IF bx + x = by + y THEN [s EXCEPT !.temp = RdA(s, by + y, by + y)]
  ELSE Move(s, bx + x, by + y, by + y, bx + x)

T6167Diag(s, bx, by, y) == IF bx = by THEN WrB(s, by + y, by + y, s.temp) ELSE s

T6167Row(s, bx, by, y) ==
  T6167Diag(ForEach(s, For(0, MinOf(16, 61 - bx), 1),
                    LAMBDA a, x : T6167Cell(a, bx, by, y, x)), bx, by, y)

transpose_6167(s, bx, by) ==
  ForEach(s, For(0, MinOf(16, 67 - by), 1), LAMBDA a, y : T6167Row(a, bx, by, y))

(* trans (lines 234-245): row i of A into column i of B.                   *)
trans(s, i) == ForEach(s, For(0, s.M, 1), LAMBDA a, j : Move(a, j, i, i, j))

Body(s, r, p) ==
  CASE Kind(r) = "t32"   -> transpose_32(s, p[1], p[2])
    [] Kind(r) = "t64"   -> transpose_64(s, p[1], p[2])
    [] Kind(r) = "t6167" -> transpose_6167(s, p[1], p[2])
    [] OTHER             -> trans(s, p[1])

(* ---------------------------------------------------------------------- *)
(* The specification.                                                      *)
(* ---------------------------------------------------------------------- *)
Machine == [M |-> run.M, N |-> run.N, B |-> B, out |-> outside, temp |-> temp]

Init ==
  /\ run \in Cases
  /\ blk = 1
  /\ B = [k \in 0 .. run.M * run.N - 1 |-> Blank]
  /\ outside = <<>>
  /\ temp = Junk

Commit(s) == B' = s.B /\ outside' = s.out /\ temp' = s.temp

(* One iteration of the outer loop.                                        *)
Iterate ==
  /\ blk <= Len(Iters(run))
  /\ Commit(Body(Machine, run, Iters(run)[blk]))
  /\ blk' = blk + 1
  /\ UNCHANGED run

(* The function has returned.                                              *)
Finished == blk > Len(Iters(run)) /\ UNCHANGED vars

Next == Iterate \/ Finished

Spec == Init /\ [][Next]_vars

(* ---------------------------------------------------------------------- *)
(* Properties.                                                             *)
(* ---------------------------------------------------------------------- *)
Cells == 0 .. run.M * run.N - 1

(* is_transpose (lines 269-281): A[i][j] = B[j][i] for every cell.         *)
is_transpose(s) ==
  \A i \in 0 .. s.N - 1, j \in 0 .. s.M - 1 : RdA(s, i, j) = RdB(s, j, i)

(* The outer iteration whose block (or row) holds cell B[r][c].            *)
Owner(r, c) ==
  CASE Kind(run) \in {"t32", "t64"} ->
         (c \div 8) * (run.N \div 8) + r \div 8 + 1
    [] Kind(run) = "t6167" ->
         (r \div 16) * Len(For(0, 67, 16)) + c \div 16 + 1
    [] OTHER -> c + 1

TypeOK ==
  /\ run \in Cases
  /\ blk \in 1 .. Len(Iters(run)) + 1
  /\ B \in [Cells -> Cells \cup {Blank}]
  /\ \A k \in DOMAIN outside : k >= run.M * run.N /\ outside[k] \in Cells \cup {Junk}
  /\ temp \in Cells \cup {Junk}

(* Between two iterations of the outer loop, every cell of B that belongs  *)
(* to an iteration already run holds its transposed value A[c][r], and     *)
(* every other cell still holds what B held before the call: an iteration  *)
(* writes exactly its own block, its quarter moves and swaps inside B      *)
(* leave no cell of the block displaced, and nothing it writes lands in    *)
(* another block (transpose_6167's temp write past row 60 included).  At   *)
(* the return this is is_transpose.                                        *)
IterationsWriteOwnBlock ==
  /\ \A r \in 0 .. run.M - 1, c \in 0 .. run.N - 1 :
       B[r * run.N + c] = IF Owner(r, c) < blk THEN AVal(c * run.M + r) ELSE Blank
  /\ blk > Len(Iters(run)) => is_transpose(Machine)

====

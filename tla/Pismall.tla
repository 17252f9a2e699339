------------------------------ MODULE Pismall ------------------------------
(***************************************************************************)
(* The exact amortised proof of pismall.cpp: TAU relations t_i = A s_i with*)
(* ternary s_i.  pismall_prover with the extraction of module Extract, the *)
(* encoded rows, the column commitment of module Merkle and its early      *)
(* return; pismall_verifier; and the caller, which tampers with openings   *)
(* as the tests do.                                                        *)
(*                                                                         *)
(* Polynomials are functions of their coefficients modulo Q; the changes   *)
(* between coefficient and transformed form are exact and left out.  The   *)
(* commitment is ideal, as module Bdlop shows it to be for the opening     *)
(* factor 1.  A hash answers the same question alike, a new one freely.    *)
(***************************************************************************)
EXTENDS Extract, Merkle, FiniteSets, FiniteSetsExt, Functions

CONSTANTS
  ROWS,        \* rows of A, R in the program
  ETA,         \* masks of an encoding, and opened columns
  A,           \* the public matrix
  Statements,  \* records [s, t]: witnesses and what they are claimed to map to
  Masks,       \* records [s0, r0, r, rh, h]: what the prover draws
  Challenges,  \* records [x, beta0, beta]: what pismall_hash can answer
  ColumnSets,  \* what aex_sample_I can answer
  MaxChecks    \* bound on the verifications of one proof

ASSUME PismallAssumption ==
  /\ ROWS \in Nat \ {0} /\ ETA \in Nat \ {0}
  /\ 2 * N + ETA <= AEX_COLS
  /\ \A j \in Basis : (P[j] - 1) % (2 * AEX_COLS) = 0
  /\ ColumnSets \subseteq [0 .. ETA - 1 -> Columns]
  /\ \A ch \in Challenges : ch.x \in Gr /\ ch.beta0 \in Gr

RowIx == 0 .. ROWS - 1
Opens == 0 .. ETA - 1
Powers == 0 .. 2

VARIABLES
  t,            \* the targets
  mask,         \* the prover's random values
  codeH, codeH0, codeHij,  \* the rows _H, H0 and H of E
  com_d,        \* commitment to -A s0
  tree,         \* aex_tree
  asked,        \* transcript of the last challenge and its answer
  asked_I,      \* the same for the opened columns
  lev,          \* prover_y
  f, rf, h, rh, \* the openings of step 9
  o,            \* root, I, col, path, and whether the prover set the last three
  tamper,       \* what the caller changed in o
  beta_v, x_v, beta0_v, lev_v,  \* the verifier's challenges
  unset_read,   \* history: the verifier has read what was never set
  result, checks, pc

rows == <<codeH, codeH0, codeHij, com_d, tree>>
sent == <<lev, f, rf, h, rh, o>>
recomputed == <<x_v, beta0_v, beta_v, lev_v>>
vars == <<s, s0, extraction, t, mask, rows, asked, asked_I, sent, tamper, recomputed,
          unset_read, result, checks, pc>>
-----------------------------------------------------------------------------
SumZq(F(_), S) == MapThenSumSet(F, S) % Q
SumGr(F(_), S) == <<SumZq(LAMBDA i : F(i)[1], S), SumZq(LAMBDA i : F(i)[2], S)>>

\* Product in Z_q[X]/(X^N + 1), and A applied to a vector of polynomials.
PolyMul(a, b) ==
  [l \in Coeffs |->
     SumZq(LAMBDA i : IF i <= l THEN Mul(a[i], b[l - i]) ELSE Sub(0, Mul(a[i], b[l + N - i])),
           Coeffs)]
Apply(w) ==
  [row \in RowIx |-> [l \in Coeffs |-> SumZq(LAMBDA k : PolyMul(A[row][k], w[k])[l], Comps)]]

ZeroPoly == [l \in Coeffs |-> 0]
Negated(a) == [l \in Coeffs |-> Sub(0, a[l])]

\* aex_encode: symbol c is the value of the packed polynomial at the c-th odd
\* power of a 2 AEX_COLS-th root of unity.
Phi == aex_root(2 * AEX_COLS)
PhiPower(i) ==
  LET e == i % (2 * AEX_COLS)
      phi[n \in 0 .. e] == IF n = 0 THEN 1 ELSE Mul(phi[n - 1], Phi)
  IN  phi[e]
Packed(in0, in1, rnd, i) ==
  CASE i < N -> in0[i] [] i \in N .. 2 * N - 1 -> in1[i - N] [] OTHER -> rnd[i - 2 * N]
aex_encode(in0, in1, rnd) ==
  [c \in Columns |->
     SumZq(LAMBDA i : Mul(Packed(in0, in1, rnd, i), PhiPower((2 * c + 1) * i)),
           0 .. 2 * N + ETA - 1)]

\* aex_row: the rows of E in order; and where the verifier looks for them.
AEX_ROWS == V * (2 + 3 * TAU)
aex_row(r) ==
  LET q == r - 2 * V
  IN  CASE r < V -> codeH[r]
        [] r \in V .. 2 * V - 1 -> codeH0[r - V]
        [] OTHER -> codeHij[(q \div V) \div 3][(q \div V) % 3][q % V]
AEX_ROW_H(k) == k
AEX_ROW_H0(k) == V + k
AEX_ROW_HIJ(i, j, k) == 2 * V + ((i * 3 + j) * V + k)

aex_column(c) == [r \in 0 .. AEX_ROWS - 1 |-> aex_row(r)[c]]

Root == aex_root(TAU)
RootPower(i) == LET w[e \in 0 .. i] == IF e = 0 THEN 1 ELSE Mul(w[e - 1], Root) IN w[i]

\* Fault: the closed form of l_i lacks the node.
aex_lagrangeNoNode(x) ==
  LET den == [i \in Nodes |-> gr_sub(x, <<RootPower(i), 0>>)]
      xt == gr_sub(gr_pow(x, TAU), GrOne)
  IN  [i \in 0 .. TAU |-> IF i = 0 THEN xt
                          ELSE gr_scalar(gr_mul(xt, gr_inv(den[i - 1])), ZqInverse(TAU))]

\* aex_lagrange: prefix products of the denominators, one inversion, and the
\* way back, where acc is the inverse of the product of those still to come.
Denominator(x, i) == gr_sub(x, <<RootPower(i), 0>>)
Prefix(x) ==
  LET pre[i \in 0 .. TAU] == IF i = 0 THEN GrOne ELSE gr_mul(pre[i - 1], Denominator(x, i - 1))
  IN  pre
LagrangeOk(x) == GrUnit(Prefix(x)[TAU])
aex_lagrange(x) ==
  LET pre == Prefix(x)
      acc[i \in Nodes] == IF i = TAU - 1 THEN gr_inv(pre[TAU])
                          ELSE gr_mul(acc[i + 1], Denominator(x, i + 1))
      xt == gr_sub(gr_pow(x, TAU), GrOne)
  IN  [i \in 0 .. TAU |->
         IF i = 0 THEN xt
         ELSE gr_scalar(gr_scalar(gr_mul(xt, gr_mul(acc[i - 1], pre[i - 1])), RootPower(i - 1)),
                        ZqInverse(TAU))]

\* l_i(x) l_0(x)^j.
Weight(y, i, j) ==
  CASE j = 0 -> y[i + 1] [] j = 1 -> gr_mul(y[i + 1], y[0])
    [] OTHER -> gr_mul(gr_mul(y[i + 1], y[0]), y[0])

Pairs == Nodes \X Powers

NoOpening == [root |-> << >>, I |-> [n \in Opens |-> 0], col |-> << >>, path |-> << >>,
              set |-> FALSE]
NoChallenge == [x |-> GrZero, beta0 |-> GrZero, beta |-> << >>]
-----------------------------------------------------------------------------
Init ==
  /\ \E st \in Statements : s = st.s /\ t = st.t
  /\ mask \in Masks
  /\ s0 = mask.s0
  /\ ExtractInit
  /\ codeH = << >> /\ codeH0 = << >> /\ codeHij = << >> /\ com_d = << >> /\ tree = << >>
  /\ asked = << << >>, NoChallenge >> /\ asked_I = << << >>, << >> >>
  /\ lev = << >> /\ f = << >> /\ rf = << >> /\ h = << >> /\ rh = << >> /\ o = NoOpening
  /\ tamper = "none"
  /\ x_v = GrZero /\ beta0_v = GrZero /\ beta_v = << >> /\ lev_v = << >>
  /\ unset_read = FALSE
  /\ result = FALSE /\ checks = 0 /\ pc = "extract"

\* d = -A s0 is committed to, the v_{i,j} are extracted.
Extraction ==
  /\ pc = "extract"
  /\ ExtractStep
  /\ UNCHANGED <<s, s0, t, mask, rows, asked, asked_I, sent, tamper, recomputed, unset_read,
                 result, checks, pc>>

\* The rows of E: delta_j puts s_i next to v_{i,0} only.
Encode ==
  /\ pc = "extract"
  /\ Extracted
  /\ com_d' = [row \in RowIx |-> Negated(Apply(s0)[row])]
  /\ codeH0' = [k \in Comps |-> aex_encode(s0[k], ZeroPoly, mask.r0)]
  /\ codeH' = [k \in Comps |-> aex_encode(mask.h[k][0], mask.h[k][1], mask.rh)]
  /\ codeHij' = [i \in Nodes |-> [j \in Powers |-> [k \in Comps |->
                   aex_encode(IF j = 0 THEN s[i][k] ELSE ZeroPoly, v[j][i][k], mask.r[i][j])]]]
  /\ pc' = "commit"
  /\ UNCHANGED <<s, s0, extraction, t, mask, tree, asked, asked_I, sent, tamper, recomputed,
                 unset_read, result, checks>>

CommitRows ==
  /\ pc = "commit"
  /\ tree' = aex_tree_build([c \in Columns |-> aex_column(c)])
  /\ o' = [o EXCEPT !.root = aex_tree_root(tree')]
  /\ \E ch \in Challenges : asked' = << <<o'.root, com_d>>, ch >>
  /\ pc' = "respond"
  /\ UNCHANGED <<s, s0, extraction, t, mask, codeH, codeH0, codeHij, com_d, asked_I, lev, f, rf,
                 h, rh, tamper, recomputed, unset_read, result, checks>>

\* _f, _rf, _h and _rh for the basis values y and the challenge ch.
OpenF(y, k, l) ==
  gr_add(gr_scalar(y[0], s0[k][l]), SumGr(LAMBDA i : gr_scalar(y[i + 1], s[i][k][l]), Nodes))
OpenRf(y, n) ==
  gr_add(gr_scalar(y[0], mask.r0[n]),
         SumGr(LAMBDA e : gr_scalar(Weight(y, e[1], e[2]), mask.r[e[1]][e[2]][n]), Pairs))
OpenRh(ch, n) ==
  gr_add(gr_add(<<mask.rh[n], 0>>, gr_scalar(ch.beta0, mask.r0[n])),
         SumGr(LAMBDA e : gr_scalar(ch.beta[e], mask.r[e[1]][e[2]][n]), Pairs))
OpenH(ch, k, half, l) ==
  LET first == gr_add(gr_scalar(ch.beta0, s0[k][l]),
                      SumGr(LAMBDA i : gr_scalar(ch.beta[<<i, 0>>], s[i][k][l]), Nodes))
      second == SumGr(LAMBDA e : gr_scalar(ch.beta[e], v[e[2]][e[1]][k][l]), Pairs)
  IN  gr_add(<<mask.h[k][half][l], 0>>, IF half = 0 THEN first ELSE second)

\* The answers to the challenge; an inversion that fails ends the prover.
RespondTo(ch) ==
  IF ~LagrangeOk(ch.x)
  THEN pc' = "sent" /\ UNCHANGED <<lev, f, rf, h, rh>>
  ELSE /\ lev' = aex_lagrange(ch.x)
       /\ f' = [k \in Comps |-> [l \in Coeffs |-> OpenF(lev', k, l)]]
       /\ rf' = [n \in Opens |-> OpenRf(lev', n)]
       /\ rh' = [n \in Opens |-> OpenRh(ch, n)]
       /\ h' = [k \in Comps |-> [half \in 0 .. 1 |-> [l \in Coeffs |-> OpenH(ch, k, half, l)]]]
       /\ pc' = "open"

Respond ==
  /\ pc = "respond"
  /\ RespondTo(asked[2])
  /\ UNCHANGED <<s, s0, extraction, t, mask, rows, asked, asked_I, o, tamper, recomputed,
                 unset_read, result, checks>>

Open ==
  /\ pc = "open"
  /\ \E I \in ColumnSets :
       /\ asked_I' = << <<o.root, f, rf, h, rh>>, I >>
       /\ o' = [o EXCEPT !.I = I, !.set = TRUE,
                  !.col = [n \in Opens |-> aex_column(I[n])],
                  !.path = [n \in Opens |-> aex_path(tree, I[n])]]
  /\ tree' = << >>                                   \* aex_tree_clear
  /\ pc' = "sent"
  /\ UNCHANGED <<s, s0, extraction, t, mask, codeH, codeH0, codeHij, com_d, asked, lev, f, rf, h,
                 rh, tamper, recomputed, unset_read, result, checks>>
-----------------------------------------------------------------------------
\* The opening as the verifier gets it: the tests flip a bit of the first
\* column or of the index it belongs to, or of the first node of a path.
Flip(i) == IF i % 2 = 1 THEN i - 1 ELSE i + 1
Opening ==
  CASE tamper = "column" -> [o EXCEPT !.col[0][0] = (@ + 1) % Q]
    [] tamper = "index" -> [o EXCEPT !.I[0] = Flip(@)]
    [] tamper = "path" -> [o EXCEPT !.path[0][0] = aex_node(@, @)]
    [] OTHER -> o

\* Fault: the checks of step 12 are made in any case.
ChallengeAnyway(ch) ==
  /\ x_v' = ch.x /\ beta0_v' = ch.beta0 /\ beta_v' = ch.beta
  /\ result' = LagrangeOk(ch.x)
  /\ lev_v' = IF result' THEN aex_lagrange(ch.x) ELSE << >>
  /\ pc' = IF result' THEN "relation" ELSE "openings"

\* The challenge again; nothing else is done if the inversion fails.
Challenge(ch) ==
  /\ x_v' = ch.x /\ beta0_v' = ch.beta0 /\ beta_v' = ch.beta
  /\ result' = LagrangeOk(ch.x)
  /\ lev_v' = IF result' THEN aex_lagrange(ch.x) ELSE << >>
  /\ pc' = IF result' THEN "relation" ELSE "verdict"

Rehash ==
  /\ pc = "sent"
  /\ tamper' \in (IF o.set THEN {"none", "column", "index", "path"} ELSE {"none"})
  /\ \E ch \in (IF asked[1] = <<o.root, com_d>> THEN {asked[2]} ELSE Challenges) : Challenge(ch)
  /\ UNCHANGED <<s, s0, extraction, t, mask, rows, asked, asked_I, sent, unset_read, checks>>

\* r = Sum l_i t_i - A f, divided by l_0; the second coordinate has to vanish
\* and the first one to open the commitment.
Remainder(row, l) ==
  LET Af(c) == Apply([k \in Comps |-> [e \in Coeffs |-> f[k][e][c]]])[row][l]
  IN  gr_sub(SumGr(LAMBDA i : gr_scalar(lev_v[i + 1], t[i][row][l]), Nodes), <<Af(1), Af(2)>>)
Quotient(row, l) == gr_mul(Remainder(row, l), gr_inv(lev_v[0]))

VerifyRelation ==
  /\ pc = "relation"
  /\ result' = (/\ GrUnit(lev_v[0])
                /\ \A row \in RowIx, l \in Coeffs : Quotient(row, l)[2] = 0
                /\ \A row \in RowIx, l \in Coeffs : Quotient(row, l)[1] = com_d[row][l])
  /\ pc' = IF GrUnit(lev_v[0]) THEN "openings" ELSE "verdict"
  /\ UNCHANGED <<s, s0, extraction, t, mask, rows, asked, asked_I, sent, tamper, recomputed,
                 unset_read, checks>>

\* The indices are those of the transcript, and every column is in the tree.
VerifyOpenings ==
  /\ pc = "openings"
  /\ unset_read' = (unset_read \/ ~o.set)
  /\ \E I \in (IF asked_I[1] = <<o.root, f, rf, h, rh>> THEN {asked_I[2]} ELSE ColumnSets) :
       result' = (result /\ \A n \in Opens :
                    /\ I[n] = Opening.I[n]
                    /\ aex_path_verify(Opening.col[n], Opening.path[n], Opening.I[n], o.root))
  /\ pc' = "identities"
  /\ UNCHANGED <<s, s0, extraction, t, mask, rows, asked, asked_I, sent, tamper, recomputed, checks>>

\* aex_identities: what the rows of column col add up to, with the weights of
\* the first and of the second identity.
SumF(col, k) ==
  gr_add(gr_scalar(lev_v[0], col[AEX_ROW_H0(k)]),
         SumGr(LAMBDA e : gr_scalar(Weight(lev_v, e[1], e[2]), col[AEX_ROW_HIJ(e[1], e[2], k)]), Pairs))
SumH(col, k) ==
  gr_add(gr_add(<<col[AEX_ROW_H(k)], 0>>, gr_scalar(beta0_v, col[AEX_ROW_H0(k)])),
         SumGr(LAMBDA e : gr_scalar(beta_v[e], col[AEX_ROW_HIJ(e[1], e[2], k)]), Pairs))

\* (f - 1) f (f + 1) / l_0, coefficient by coefficient.
Cubic(z) ==
  gr_mul(gr_mul(gr_mul(gr_sub(z, GrOne), z), gr_add(z, GrOne)), gr_inv(lev_v[0]))

Identities(k, n) ==
  LET col == Opening.col[n]
      Comp(g, c) == [l \in Coeffs |-> g[l][c]]
      Rnd(g, c) == [m \in Opens |-> g[m][c]]
      cub == [l \in Coeffs |-> Cubic(f[k][l])]
  IN  \A c \in 1 .. 2 :
        /\ aex_encode(Comp(f[k], c), Comp(cub, c), Rnd(rf, c))[Opening.I[n]] = SumF(col, k)[c]
        /\ aex_encode(Comp(h[k][0], c), Comp(h[k][1], c), Rnd(rh, c))[Opening.I[n]] = SumH(col, k)[c]

VerifyIdentities ==
  /\ pc = "identities"
  /\ result' = (result /\ \A n \in Opens, k \in Comps : Identities(k, n))
  /\ pc' = "verdict"
  /\ UNCHANGED <<s, s0, extraction, t, mask, rows, asked, asked_I, sent, tamper, recomputed,
                 unset_read, checks>>

\* The caller verifies again, or clears the opening: deleting pointers that were
\* never set is undefined behaviour.
VerifyAgain ==
  /\ pc = "verdict"
  /\ checks < MaxChecks - 1
  /\ checks' = checks + 1
  /\ pc' = "sent"
  /\ UNCHANGED <<s, s0, extraction, t, mask, rows, asked, asked_I, sent, tamper, recomputed,
                 unset_read, result>>

Clear ==
  /\ pc = "verdict"
  /\ pc' = IF o.set THEN "done" ELSE "undefined"
  /\ o' = [NoOpening EXCEPT !.root = o.root]
  /\ UNCHANGED <<s, s0, extraction, t, mask, rows, asked, asked_I, lev, f, rf, h, rh, tamper,
                 recomputed, unset_read, result, checks>>

Stopped == pc \in {"done", "undefined"} /\ UNCHANGED vars

Next ==
  \/ Extraction \/ Encode \/ CommitRows \/ Respond \/ Open
  \/ Rehash \/ VerifyRelation \/ VerifyOpenings \/ VerifyIdentities
  \/ VerifyAgain \/ Clear \/ Stopped

Spec == Init /\ [][Next]_vars
-----------------------------------------------------------------------------
Phases == {"extract", "commit", "respond", "open", "sent", "relation", "openings",
           "identities", "verdict", "done", "undefined"}

\* Ranges of the state: words stay reduced through every pass over the buffers,
\* the quotient keeps the length the degrees allow, and recombined values are
\* below the product of the primes.
TypeOK ==
  /\ pos \in 0 .. Positions /\ round \in Powers /\ len \in 0 .. 3 * TAU
  /\ \A i \in Nodes : buft[i] \in 0 .. (IF phase = "interpolate" THEN P0 + P1 ELSE p_ - 1)
  /\ phase # "interpolate" => \A m \in 0 .. len - 1 : Current[m] \in 0 .. p_ - 1
  /\ \A j \in Powers, i \in Nodes, k \in Comps, l \in Coeffs : v[j][i][k][l] \in Zq
  /\ f # << >> => \A k \in Comps, l \in Coeffs : f[k][l] \in Gr
  /\ result \in BOOLEAN /\ checks \in 0 .. MaxChecks - 1 /\ pc \in Phases

\* The basis polynomials as pismall_setup computes them, at x.
ProductOver(S, fun) == FoldFunctionOnSet(gr_mul, GrOne, fun, S)
Basis0(x) == ProductOver(Nodes, [j \in Nodes |-> Denominator(x, j)])
BasisAt(i, x) ==
  ProductOver(Nodes \ {i},
    [j \in Nodes |-> gr_scalar(Denominator(x, j), ZqInverse(Sub(RootPower(i), RootPower(j))))])

\* aex_lagrange's closed form with its one inversion gives the values of the
\* polynomials pismall_setup builds from the nodes, and its inversion fails for
\* exactly the challenges whose l_0 is a zero divisor: the second inversion, of
\* l_0 itself, cannot fail after the first one.
LagrangeIsBasis ==
  pc = "sent" =>
    LET x == asked[2].x
    IN  /\ LagrangeOk(x) <=> GrUnit(Basis0(x))
        /\ lev # << >> <=> LagrangeOk(x)
        /\ LagrangeOk(x) =>
             lev[0] = Basis0(x) /\ \A i \in Nodes : lev[i + 1] = BasisAt(i, x)

\* What the verdict means, exactly: for an untouched opening and a challenge
\* that can be used, the sum of the differences t_i - A s_i, weighted by the
\* basis at the challenge, vanishes, and the polynomials made of the sums of the
\* cubics s_i^3 - s_i have a root where each opened column evaluates.  In
\* particular a true statement with ternary witnesses is always accepted.
RelationsVanish(x) ==
  \A row \in RowIx, l \in Coeffs :
    SumGr(LAMBDA i : gr_scalar(BasisAt(i, x), Sub(t[i][row][l], Apply(s[i])[row][l])), Nodes) = GrZero
CubicSum(k, l, x) ==
  SumGr(LAMBDA i : LET a == s[i][k][l]
                   IN  gr_scalar(BasisAt(i, x), Sub(Mul(Mul(a, a), a), a)), Nodes)
CubicsVanishAt(c, x) ==
  \A k \in Comps :
    SumGr(LAMBDA l : gr_scalar(CubicSum(k, l, x), PhiPower((2 * c + 1) * l)), Coeffs) = GrZero
VerdictIsRelation ==
  pc = "verdict" =>
    LET x == asked[2].x
    IN  result <=> /\ tamper = "none"
                   /\ GrUnit(Basis0(x))
                   /\ RelationsVanish(x)
                   /\ \A n \in Opens : CubicsVanishAt(asked_I[2][n], x)

\* "the column only opens at the index it was committed to" (pismall.cpp:1756):
\* of all columns, paths of leaves and indices, exactly those of one and the same
\* leaf verify.
OpensOnlyItself ==
  pc = "open" =>
    \A c, d, e \in Columns :
      aex_path_verify(aex_column(d), aex_path(tree, e), c, o.root) <=>
        aex_column(d) = aex_column(c) /\ aex_path(tree, e) = aex_path(tree, c)

\* When the prover gives up it leaves the indices, columns and paths unset; the
\* verifier comes to the same challenge, fails on the same inversion, and
\* rejects without having read any of them.
UnsetNeverRead ==
  /\ ~unset_read
  /\ pc = "verdict" /\ ~o.set => ~result

\* "Safe to alias" (pismall.cpp:85) and "gr_inv calls this in place" (:48): for
\* the values of the run, in whatever variables, the results are the same.
AliasesHarmless ==
  pc = "commit" \/ pc = "respond" =>
    LET ch == asked[2] IN AliasSafe(Store(ch.x, ch.beta0, gr_add(ch.x, ch.beta0)))
=============================================================================

----------------------------- MODULE Locations -----------------------------
(***************************************************************************)
(* The table from positions in the bytecode to the blocks of the project   *)
(* (Locations in bytecode.rs).  A location is the integers that a collab   *)
(* id has after the prefix that all ids of a role share.                   *)
(***************************************************************************)
EXTENDS Varint, IndexOrder

Tokens(orig) == UNION {{orig[pos][k] : k \in DOMAIN orig[pos]} : pos \in DOMAIN orig}

\* base_token: the least token, if there is one.
BaseToken(orig) == IF Tokens(orig) = {} THEN 0 ELSE LeastOf(Tokens(orig))

Token(tok, base) == tok - base + 1

\* The tokens of a location are appended; a zero ends them.
AppendTokens(data, toks, base) ==
  LET n == Len(toks)
      after[k \in 0 .. n] ==
        IF k = 0 THEN data ELSE after[k - 1] \o EncodeU64(Token(toks[k], base))
  IN  after[n] \o EncodeU64(0)

AppendLocation(table, pos, toks) ==
  [base_token |-> table.base_token,
   locs       |-> Append(table.locs, <<pos, Len(table.token_data)>>),
   token_data |-> AppendTokens(table.token_data, toks, table.base_token)]

\* Locations::condense, of a map from positions to locations.
Condense(orig) ==
  LET order == InOrder(DOMAIN orig)
      n     == Len(order)
      after[k \in 0 .. n] ==
        IF k = 0 THEN [base_token |-> BaseToken(orig), locs |-> <<>>, token_data |-> <<>>]
                 ELSE AppendLocation(after[k - 1], order[k], orig[order[k]])
  IN  after[n]

\* Mutant of LowerBound: the first that is greater.
UpperBound(locs, pos) ==
  LeastOf({n \in DOMAIN locs : locs[n][1] > pos} \union {Len(locs) + 1})

LowerBound(locs, pos) ==
  LeastOf({n \in DOMAIN locs : locs[n][1] >= pos} \union {Len(locs) + 1})

\* The next token is read, unless it is the zero.
ReadToken(table, o) ==
  LET tok == DecodeU64(table.token_data, o.start)
  IN  IF tok.val = 0
        THEN o
        ELSE [start |-> tok.aft, toks |-> Append(o.toks, tok.val - 1 + table.base_token)]

\* The tokens from start on, of which there are no more than bytes.
ReadTokens(table, start) ==
  LET n == Len(table.token_data)
      read[k \in 0 .. n] ==
        IF k = 0 THEN [start |-> start, toks |-> <<>>] ELSE ReadToken(table, read[k - 1])
  IN  read[n].toks

\* Locations::lookup: the first location behind the position.
Lookup(table, pos) ==
  LET p == LowerBound(table.locs, pos + 1)
  IN  IF p > Len(table.locs) THEN <<>> ELSE ReadTokens(table, table.locs[p][2])
=============================================================================

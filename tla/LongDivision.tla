----------------------------- MODULE LongDivision -----------------------------
(***************************************************************************)
(* APInt::udivrem_wide (utils/APInt.cpp): the quotient and the rest of     *)
(* integers of more than two words, by Knuth's algorithm D on limbs of     *)
(* half a word.  A number is a function from limb positions, the lowest    *)
(* first.  The loop over the digits of the quotient is a step a digit.     *)
(***************************************************************************)
EXTENDS Integers, FiniteSetsExt

CONSTANTS
  LimbBits,   \* bits of a limb, 32 in the code
  MaxLimbs    \* bound: limbs of the operands, twice the words of their width
ASSUME LimbAssumption == LimbBits \in Nat \ {0} /\ MaxLimbs \in Nat \ {0}

VARIABLES
  u, v,    \* the operands
  m, n,    \* their limbs without the leading zeros
  s,       \* by how much v was shifted to fill its highest limb
  un, vn,  \* the shifted operands; un becomes the shifted rest
  q, r,    \* the quotient and the rest
  j,       \* the digit of the quotient that is next
  pc

divVars == <<u, v, m, n, s, un, vn, q, r, j, pc>>

\* The powers of two and those of the base, up to the largest that is needed.
Twos[i \in 0..LimbBits] == IF i = 0 THEN 1 ELSE 2 * Twos[i - 1]
B == Twos[LimbBits]
Place[i \in 0..(MaxLimbs + 1)] == IF i = 0 THEN 1 ELSE B * Place[i - 1]
Number(x, len) ==
  LET below[i \in 0..len] == IF i = 0 THEN 0 ELSE below[i - 1] + x[i - 1] * Place[i - 1]
  IN below[len]
Limbs(len)  == [0..(len - 1) -> 0..(B - 1)]
Zero(len)   == [i \in 0..(len - 1) |-> 0]
Trim(x)     == Max({0} \cup {i + 1 : i \in {k \in DOMAIN x : x[k] # 0}})

DivInit ==
  /\ u \in Limbs(MaxLimbs) /\ v \in Limbs(MaxLimbs) \ {Zero(MaxLimbs)}
  /\ m = Trim(u) /\ n = Trim(v)
  /\ q = Zero(MaxLimbs) /\ r = Zero(MaxLimbs)
  /\ un = Zero(MaxLimbs + 1) /\ vn = Zero(MaxLimbs)
  /\ s = 0 /\ j = -1 /\ pc = "start"

Smaller ==
  /\ pc = "start" /\ m < n
  /\ r' = u /\ pc' = "done"
  /\ UNCHANGED <<u, v, m, n, s, un, vn, q, j>>

OneLimb ==
  /\ pc = "start" /\ m >= n /\ n = 1
  /\ LET k[i \in 0..m] == IF i = m THEN 0 ELSE (k[i + 1] * B + u[i]) % v[0]
     IN /\ q' = [i \in DOMAIN q |-> IF i < m THEN (k[i + 1] * B + u[i]) \div v[0] ELSE 0]
        /\ r' = [r EXCEPT ![0] = k[0]]
  /\ pc' = "done"
  /\ UNCHANGED <<u, v, m, n, s, un, vn, j>>

\* A limb of x moved up by sh bits; the one below gives its high bits.
Up(x, i, sh) == ((x[i] * Twos[sh]) % B) + (IF i = 0 THEN 0 ELSE x[i - 1] \div Twos[LimbBits - sh])

Normalise ==
  /\ pc = "start" /\ m >= n /\ n > 1
  /\ s' = Max({k \in 0..(LimbBits - 1) : v[n - 1] * Twos[k] < B})
  /\ vn' = [i \in DOMAIN vn |-> IF i < n THEN Up(v, i, s') ELSE 0]
  /\ un' = [i \in DOMAIN un |-> CASE i < m -> Up(u, i, s')
                                  [] i = m -> u[m - 1] \div Twos[LimbBits - s']
                                  [] i > m -> 0]
  /\ j' = m - n /\ pc' = "digits"
  /\ UNCHANGED <<u, v, m, n, q, r>>

\* qhat: a digit from the two highest limbs of the rest, taken down as long as the
\* third one shows that it is too large.
Estimate(x, d) ==
  LET num   == x[d + n] * B + x[d + n - 1]
      qhat  == num \div vn[n - 1]
      rhat(c) == (num % vn[n - 1]) + c * vn[n - 1]
      above(c) == \/ qhat - c >= B
                  \/ (qhat - c) * vn[n - 2] > rhat(c) * B + x[d + n - 2]
  IN qhat - Min({c \in 0..B : rhat(c) >= B \/ ~above(c)})

\* The limbs d to d + n of x minus qhat * vn, and what is borrowed from beyond.
Subtract(x, d, qhat) ==
  LET p(i) == qhat * vn[i]
      t[i \in 0..n] ==
        LET borrow == IF i = 0 THEN 0 ELSE (p(i - 1) \div B) - (t[i - 1] \div B)
        IN x[i + d] - borrow - (IF i < n THEN p(i) % B ELSE 0)
  IN [limbs |-> [i \in DOMAIN x |-> IF i \in d..(d + n) THEN t[i - d] % B ELSE x[i]],
      negative |-> t[n] < 0]

\* Mutant of AddBack: the carry out of the limbs of vn is lost too early.
AddBackNoCarry(x, d) ==
  LET carry[i \in 0..n] == IF i = 0 THEN 0 ELSE (x[i - 1 + d] + vn[i - 1] + carry[i - 1]) \div B
  IN [i \in DOMAIN x |-> IF i \in d..(d + n - 1) THEN (x[i] + vn[i - d] + carry[i - d]) % B ELSE x[i]]

\* vn added to the limbs from d on, the carry out of the highest one dropped.
AddBack(x, d) ==
  LET carry[i \in 0..n] == IF i = 0 THEN 0 ELSE (x[i - 1 + d] + vn[i - 1] + carry[i - 1]) \div B
      add(i) == IF i < n THEN vn[i] ELSE 0
  IN [i \in DOMAIN x |-> IF i \in d..(d + n) THEN (x[i] + add(i - d) + carry[i - d]) % B ELSE x[i]]

Digit ==
  /\ pc = "digits" /\ j >= 0
  /\ LET qhat == Estimate(un, j)
         sub  == Subtract(un, j, qhat)
     IN /\ ~sub.negative
        /\ un' = sub.limbs /\ q' = [q EXCEPT ![j] = qhat % B]
  /\ j' = j - 1
  /\ UNCHANGED <<u, v, m, n, s, vn, r, pc>>

\* The digit was one too large.
DigitAddBack ==
  /\ pc = "digits" /\ j >= 0
  /\ LET qhat == Estimate(un, j)
         sub  == Subtract(un, j, qhat)
     IN /\ sub.negative
        /\ un' = AddBack(sub.limbs, j) /\ q' = [q EXCEPT ![j] = (qhat - 1) % B]
  /\ j' = j - 1
  /\ UNCHANGED <<u, v, m, n, s, vn, r, pc>>

Denormalise ==
  /\ pc = "digits" /\ j < 0
  /\ r' = [i \in DOMAIN r |->
             IF i < n THEN (un[i] \div Twos[s]) + ((un[i + 1] * Twos[LimbBits - s]) % B) ELSE 0]
  /\ pc' = "done"
  /\ UNCHANGED <<u, v, m, n, s, un, vn, q, j>>

DivNext == Smaller \/ OneLimb \/ Normalise \/ Digit \/ DigitAddBack \/ Denormalise

DivSpec == DivInit /\ [][DivNext]_divVars

-----------------------------------------------------------------------------
(* Properties *)

\* Between two digits what is left of the shifted dividend and the digits found so far
\* make up the dividend, and the next digit is less than the base: an estimate that
\* is not taken back where it was too large breaks it.  At the end the
\* quotient and the rest are those of the operands.
DivisionExact ==
  LET num(x) == Number(x, MaxLimbs)
  IN /\ pc = "digits" =>
          /\ num(u) * Twos[s] = num(q) * num(vn) + Number(un, MaxLimbs + 1)
          /\ Number(un, MaxLimbs + 1) < num(vn) * Place[j + 1]
     /\ pc = "done" => num(q) = num(u) \div num(v) /\ num(r) = num(u) % num(v)
=============================================================================

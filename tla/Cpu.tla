-------------------------------- MODULE Cpu --------------------------------
(***************************************************************************)
(* cpu.c and the status register of executor.c.  The register is the set   *)
(* of the bits that are on, so that "a flag is set" is membership and "no   *)
(* other flag changes" is an equation between sets.                        *)
(***************************************************************************)
EXTENDS Words

SR_S == 13
SR_I2 == 10
SR_I1 == 9
SR_I0 == 8
SR_X == 4
SR_N == 3
SR_Z == 2
SR_V == 1
SR_C == 0

RegisterNumber == 0 .. 7

StatusRegister == SUBSET (0 .. 15)

CPU == [d : [RegisterNumber -> Long], a : [RegisterNumber -> Long],
        pc : Long, sr : StatusRegister]

cpu_init ==
  [d |-> [r \in RegisterNumber |-> ZeroLong], a |-> [r \in RegisterNumber |-> ZeroLong],
   pc |-> ZeroLong, sr |-> {}]

cpu_pulse_reset == [cpu_init EXCEPT !.sr = {SR_S, SR_I2, SR_I1, SR_I0}]

-----------------------------------------------------------------------------
(* Mistake: the flag's mask where its number is meant. *)
set_sr_flag_mask(sr, flag, on) == IF on THEN sr \cup {2^flag} ELSE sr \ {2^flag}

set_sr_flag(sr, flag, on) == IF on THEN sr \cup {flag} ELSE sr \ {flag}

(* Mistake: the overflow of an addition for both. *)
overflow_of_addition(is_sub, Sm, Dm, Rm) == (~Sm /\ ~Dm /\ Rm) \/ (Sm /\ Dm /\ ~Rm)

(* V of D + S = R, or of D - S = R if is_sub, from the three sign bits. *)
overflow(is_sub, Sm, Dm, Rm) ==
  IF is_sub THEN (Sm /\ ~Dm /\ ~Rm) \/ (~Sm /\ Dm /\ Rm)
            ELSE (~Sm /\ ~Dm /\ Rm) \/ (Sm /\ Dm /\ ~Rm)

(* Mistakes: the carry of an addition, or the borrow, for both. *)
carry_of_addition(is_sub, Sm, Dm, Rm) == (Sm /\ Dm) \/ (~Rm /\ Dm) \/ (Sm /\ ~Rm)
carry_of_subtraction(is_sub, Sm, Dm, Rm) == (Sm /\ ~Dm) \/ (Rm /\ ~Dm) \/ (Sm /\ Rm)

(* C, the carry or the borrow. *)
carry(is_sub, Sm, Dm, Rm) ==
  IF is_sub THEN (Sm /\ ~Dm) \/ (Rm /\ ~Dm) \/ (Sm /\ Rm)
            ELSE (Sm /\ Dm) \/ (~Rm /\ Dm) \/ (Sm /\ ~Rm)

set_flags(sr, S, D, R, size_code, is_sub) ==
  LET Sm == Msb(S, size_code)
      Dm == Msb(D, size_code)
      Rm == Msb(R, size_code)
      z  == set_sr_flag(sr, SR_Z, Truncate(R, size_code) = ZeroLong)
      n  == set_sr_flag(z, SR_N, Rm)
      v  == set_sr_flag(n, SR_V, overflow(is_sub, Sm, Dm, Rm))
      c  == set_sr_flag(v, SR_C, carry(is_sub, Sm, Dm, Rm))
  IN  set_sr_flag(c, SR_X, SR_C \in c)

(* Mistake: the overflow of the last arithmetic operation is kept. *)
set_logic_flags_keep_v(sr, result, size_code) ==
  LET z == set_sr_flag(sr \ {SR_C}, SR_Z, Truncate(result, size_code) = ZeroLong)
  IN  set_sr_flag(z, SR_N, Msb(result, size_code))

set_logic_flags(sr, result, size_code) ==
  LET cv == sr \ {SR_C, SR_V}
      z  == set_sr_flag(cv, SR_Z, Truncate(result, size_code) = ZeroLong)
  IN  set_sr_flag(z, SR_N, Msb(result, size_code))

(* The condition codes of handle_bcc.  Condition 1 has no case in its       *)
(* switch and never branches.                                               *)
branch_taken(condition, sr) ==
  LET z == SR_Z \in sr
      n == SR_N \in sr
      v == SR_V \in sr
      c == SR_C \in sr
  IN  CASE condition = 0  -> TRUE
        [] condition = 2  -> ~c /\ ~z
        [] condition = 3  -> c \/ z
        [] condition = 4  -> ~c
        [] condition = 5  -> c
        [] condition = 6  -> ~z
        [] condition = 7  -> z
        [] condition = 8  -> ~v
        [] condition = 9  -> v
        [] condition = 10 -> ~n
        [] condition = 11 -> n
        [] condition = 12 -> (n /\ v) \/ (~n /\ ~v)
        [] condition = 13 -> (n /\ ~v) \/ (~n /\ v)
        [] condition = 14 -> (n /\ v /\ ~z) \/ (~n /\ ~v /\ ~z)
        [] condition = 15 -> z \/ (n /\ ~v) \/ (~n /\ v)
        [] OTHER -> FALSE

=============================================================================

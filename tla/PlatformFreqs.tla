---------------------------- MODULE PlatformFreqs ----------------------------
(***************************************************************************)
(* The GPU frequency table of os/linux/platform_gp10b_tegra.c:             *)
(* gp10b_clk_get_freqs() walks the rates the GPC clock supports with       *)
(* clk_round_rate() into a local table of at most                          *)
(* GP10B_MAX_SUPPORTED_FREQS rates, then keeps all of them if they fit in  *)
(* gp10b_freq_table[GP10B_NUM_SUPPORTED_FREQS], and otherwise every        *)
(* GP10B_FREQ_SELECT_STEP-th rate; gp10b_round_clk_rate() rounds a         *)
(* devfreq request up to that table.                                       *)
(*                                                                         *)
(* The rates a clock supports are a set of integers; a table is a          *)
(* sequence, index i + 1 standing for the C array's index i.               *)
(***************************************************************************)
EXTENDS Naturals, Sequences, FiniteSetsExt

CONSTANTS
    GP10B_MAX_SUPPORTED_FREQS,
    GP10B_NUM_SUPPORTED_FREQS,
    GP10B_FREQ_SELECT_STEP,
    UINT_MAX

ASSUME GP10B_NUM_SUPPORTED_FREQS \in 1..GP10B_MAX_SUPPORTED_FREQS
ASSUME GP10B_FREQ_SELECT_STEP \in Nat \ {0}

(* clk_round_rate() of the GPC clock: the least supported rate at or      *)
(* above r, or the highest one.  The walk of gp10b_clk_get_freqs() asks   *)
(* for prev_rate + 1 and so relies on this rounding up.                   *)
ClkRoundRate(hw, r) ==
    LET up == {x \in hw : x >= r} IN
    IF up # {} THEN Min(up) ELSE Max(hw)

\* Mutant: the walk asks for prev_rate instead of prev_rate + 1.
LocFreqTableNoIncrement(hw) ==
    LET maxRate == ClkRoundRate(hw, UINT_MAX - 1)
        RECURSIVE Walk(_, _, _)
        Walk(i, prev, tbl) ==
            IF i >= GP10B_MAX_SUPPORTED_FREQS THEN [tbl |-> tbl, cnt |-> i]
            ELSE LET new == ClkRoundRate(hw, prev) IN
                 IF new = maxRate THEN [tbl |-> Append(tbl, new), cnt |-> i + 1]
                 ELSE Walk(i + 1, new, Append(tbl, new))
    IN  Walk(0, 0, <<>>)

(* Lines 456-474: walk the hardware table from rate 0, one rate per       *)
(* iteration, until max_rate is reached (counted, by the ++i before the   *)
(* break) or the local table is full.  cnt is freq_counter.               *)
LocFreqTable(hw) ==
    LET maxRate == ClkRoundRate(hw, UINT_MAX - 1)
        RECURSIVE Walk(_, _, _)
        Walk(i, prev, tbl) ==
            IF i >= GP10B_MAX_SUPPORTED_FREQS THEN [tbl |-> tbl, cnt |-> i]
            ELSE LET new == ClkRoundRate(hw, prev + 1) IN
                 IF new = maxRate THEN [tbl |-> Append(tbl, new), cnt |-> i + 1]
                 ELSE Walk(i + 1, new, Append(tbl, new))
    IN  Walk(0, 0, <<>>)

\* Mutant: the selection loop runs while sel_freq_cnt <= GP10B_NUM_SUPPORTED_FREQS.
SelectFreqsOffByOne(loc, cnt, maxRate) ==
    IF cnt <= GP10B_NUM_SUPPORTED_FREQS THEN SubSeq(loc, 1, cnt)
    ELSE LET RECURSIVE Sel(_, _)
             Sel(i, out) ==
                 IF i >= GP10B_MAX_SUPPORTED_FREQS \/ Len(out) > GP10B_NUM_SUPPORTED_FREQS
                 THEN out
                 ELSE LET r == loc[i + 1] IN
                      IF i % GP10B_FREQ_SELECT_STEP = 0 \/ r = maxRate
                      THEN IF r = maxRate THEN Append(out, r) ELSE Sel(i + 1, Append(out, r))
                      ELSE Sel(i + 1, out)
         IN  Sel(0, <<>>)

(* Lines 481-504: all rates if freq_counter fits the table, else every    *)
(* GP10B_FREQ_SELECT_STEP-th rate and max_rate, stopping when max_rate is *)
(* taken or the table is full.  The result is gp10b_freq_table, its       *)
(* length num_supported_freq.                                             *)
SelectFreqs(loc, cnt, maxRate) ==
    IF cnt <= GP10B_NUM_SUPPORTED_FREQS THEN SubSeq(loc, 1, cnt)
    ELSE LET RECURSIVE Sel(_, _)
             Sel(i, out) ==
                 IF i >= GP10B_MAX_SUPPORTED_FREQS \/ Len(out) >= GP10B_NUM_SUPPORTED_FREQS
                 THEN out
                 ELSE LET r == loc[i + 1] IN
                      IF i % GP10B_FREQ_SELECT_STEP = 0 \/ r = maxRate
                      THEN IF r = maxRate THEN Append(out, r) ELSE Sel(i + 1, Append(out, r))
                      ELSE Sel(i + 1, out)
         IN  Sel(0, <<>>)

\* gp10b_clk_get_freqs() on a clock supporting the rates hw, first call.
ClkGetFreqs(hw) ==
    LET loc == LocFreqTable(hw) IN
    SelectFreqs(loc.tbl, loc.cnt, ClkRoundRate(hw, UINT_MAX - 1))

\* Mutant: a table entry equal to the request is skipped.
GpRoundClkRateStrict(tbl, rate) ==
    LET above == {i \in 1..Len(tbl) : tbl[i] > rate} IN
    IF above # {} THEN tbl[Min(above)] ELSE tbl[Len(tbl)]

(* gp10b_round_clk_rate(): the first table entry at or above the rate,    *)
(* else the last entry.                                                   *)
GpRoundClkRate(tbl, rate) ==
    LET above == {i \in 1..Len(tbl) : tbl[i] >= rate} IN
    IF above # {} THEN tbl[Min(above)] ELSE tbl[Len(tbl)]

=============================================================================

---------------------------- MODULE EncoderPasses ----------------------------
(***************************************************************************)
(* The coding loops of the lossy encoder (src/enc/frame_enc.c):            *)
(*   - VP8EncLoop(): the passes of StatLoop(), then the one that codes;    *)
(*   - VP8EncTokenLoop(): passes that record tokens, coded by the end.     *)
(* A pass whose modes do not fit in the first partition is made again,     *)
(* with fewer bits for them, even after it was thought to be the last.     *)
(*                                                                         *)
(* Statistics, probabilities, tokens and streams are the macroblocks they  *)
(* were made of, each with the pass (and so the quantizer) it was coded    *)
(* in: "now" for the pass that began last, "before" for the others.  Left  *)
(* out: rates and distortions, which may turn out any way, the order of    *)
(* macroblocks in a partition, and the percentages.                        *)
(***************************************************************************)
EXTENDS Integers

CONSTANTS
  Macroblocks,   \* mb_w_ * mb_h_
  FastBlocks,    \* how many of them a fast probe looks at
  RefreshAfter,  \* max_count, at least 96 in the code
  MaxPasses,     \* bound of config->pass, 10 in the code
  HeaderBits     \* the values max_i4_header_bits_ may begin with

ASSUME PassesAssumption ==
  /\ Macroblocks \in Nat \ {0} /\ FastBlocks \in 1..Macroblocks
  /\ RefreshAfter \in Nat \ {0} /\ MaxPasses \in Nat \ {0}
  /\ HeaderBits \subseteq Nat

VARIABLES
  config,      \* what the loops read of the configuration and the picture
  loop,        \* where the loops are, or how they ended
  left,        \* num_pass_left
  dq,          \* stats.dq: "first", "far" or "near" (at most DQ_LIMIT)
  headerBits,  \* enc->max_i4_header_bits_
  last,        \* is_last_pass
  block,       \* macroblocks done in this pass
  cnt,         \* until the next refresh of the probabilities
  counted,     \* proba_.stats_
  skips,       \* proba_.nb_skip_: the macroblocks it was counted over
  coeffs,      \* proba_.coeffs_
  skipProba,   \* proba_.skip_proba_
  tokens,      \* enc->tokens_
  sideInfo,    \* block_count_
  filterStats, \* lf_stats_
  coded,       \* the token partitions: macroblocks, and probabilities used
  statLoop,    \* what StatLoop() returned, and why
  overflow     \* history: the modes of the pass do not fit

search == <<left, dq, headerBits>>
probas == <<counted, skips, coeffs, skipProba>>
infos  == <<sideInfo, filterStats>>
passVars == <<config, loop, last, block, cnt, search, probas, tokens, infos, coded,
              statLoop, overflow>>

\* use_tokens_; what is searched for; config->pass; fast_probe; and whether
\* the modes have a size: methods 0 to 2 do not add up info.H, which leaves
\* the size of the segment map, 0 for a single segment.
LoopConfig ==
  {c \in [tokens : BOOLEAN, target : {"none", "size", "PSNR"}, pass : 1..MaxPasses,
          fast : BOOLEAN, sized : BOOLEAN] :
     c.fast \/ ~c.sized => ~c.tokens /\ c.target = "none"}

PassesInit ==
  /\ config = CHOOSE c \in LoopConfig : TRUE
  /\ loop = "begin" /\ left = 0 /\ dq = "first" /\ headerBits = 0 /\ last = FALSE
  /\ block = 0 /\ cnt = 0
  /\ counted = {} /\ skips = {} /\ coeffs = {} /\ skipProba = {}
  /\ tokens = {} /\ sideInfo = {} /\ filterStats = {} /\ coded = {}
  /\ statLoop = "none" /\ overflow = FALSE

Ends == {"ok", "memory", "abort"}

\* The macroblock at hand, and the first n of this pass.
Current == <<"now", block>>
FirstOfPass(n) == {"now"} \X (0..(n - 1))

\* The same macroblocks once another pass begins.
Before(S) == {<<"before", b[2]>> : b \in S}

------------------------------------------------------------------------------
(* What both loops do at the start and at the end of a pass.               *)

\* PreLoopInitialize(), InitPassStats(), and ResetTokenStats() in StatLoop():
\* the configuration matters from here on.
BeginLoop ==
  /\ loop = "begin"
  /\ config' \in LoopConfig /\ headerBits' \in HeaderBits
  /\ left' = config'.pass
  /\ loop' \in {IF config'.tokens THEN "token" ELSE "stat", "memory"}
  /\ UNCHANGED <<last, block, cnt, dq, probas, tokens, infos, coded, statLoop, overflow>>

\* The head of the loop and SetLoopParams(), with the quality of the search:
\* nb_skip_ is reset, and what was made so far is of another pass.
BeginPass ==
  /\ left > 0 /\ left' = left - 1
  /\ last' = (dq = "near" \/ left' = 0 \/ headerBits = 0)
  /\ block' = 0
  /\ skips' = {}
  /\ coeffs' = Before(coeffs) /\ skipProba' = Before(skipProba)
  /\ overflow' = FALSE

\* The modes of the pass do not fit, which is only known if they are counted;
\* this is accepted once no bit is left to take away.
Overflows == IF config.sized THEN BOOLEAN ELSE {FALSE}
MustStartOver == headerBits > 0 /\ overflow'

SameHeaderBits ==                                                  \* (faulty)
  left' = left + 1 /\ UNCHANGED <<headerBits, dq>>

StartOver == left' = left + 1 /\ headerBits' = headerBits \div 2 /\ UNCHANGED dq

\* The first change is by 10, the next ones may turn out any way.
ComputeNextQ == IF dq = "first" THEN dq' = "far" ELSE dq' \in {"far", "near"}

FinalizeProbas == coeffs' = counted /\ skipProba' = skips

------------------------------------------------------------------------------
(* StatLoop()                                                              *)

StatBlocks == IF config.fast THEN FastBlocks ELSE Macroblocks

BeginStatPass ==
  /\ loop = "stat" /\ loop' = "statPass"
  /\ BeginPass
  /\ counted' = Before(counted)
  /\ UNCHANGED <<config, cnt, dq, headerBits, tokens, infos, coded, statLoop>>

\* OneStatPass() for a macroblock; the hook may refuse to go on.
StatBlock ==
  /\ loop = "statPass" /\ block < StatBlocks
  /\ block' = block + 1
  /\ counted' = counted \cup {Current} /\ skips' = skips \cup {Current}
  /\ \/ UNCHANGED <<loop, statLoop>>
     \/ loop' = "stats" /\ statLoop' = "abort"
  /\ UNCHANGED <<config, last, cnt, search, coeffs, skipProba, tokens, infos, coded,
                 overflow>>

\* A size of 0 is how OneStatPass() says that the hook refused.
Unsized ==
  /\ loop = "statPass" /\ block = StatBlocks /\ ~config.sized
  /\ loop' = "stats" /\ statLoop' = "unsized"
  /\ UNCHANGED <<config, last, block, cnt, search, probas, tokens, infos, coded,
                 overflow>>

EndStatPass ==
  /\ loop = "statPass" /\ block = StatBlocks /\ config.sized
  /\ IF config.target = "size" THEN FinalizeProbas ELSE UNCHANGED <<coeffs, skipProba>>
  /\ overflow' \in Overflows
  /\ IF MustStartOver THEN StartOver /\ loop' = "stat"
     ELSE /\ UNCHANGED <<left, headerBits>>
          /\ IF ~last /\ config.target # "none" THEN ComputeNextQ ELSE UNCHANGED dq
          /\ loop' = IF last \/ dq' = "near" THEN "statEnd" ELSE "stat"
  /\ UNCHANGED <<config, last, block, cnt, counted, skips, tokens, infos, coded,
                 statLoop>>

StatLoopEnds ==
  /\ loop = "statEnd" /\ loop' = "stats"
  /\ IF config.target = "size" THEN UNCHANGED <<coeffs, skipProba>> ELSE FinalizeProbas
  /\ statLoop' \in {"ok", "abort"}
  /\ UNCHANGED <<config, last, block, cnt, search, counted, skips, tokens, infos,
                 coded, overflow>>

StatLoop == BeginStatPass \/ StatBlock \/ Unsized \/ EndStatPass \/ StatLoopEnds

------------------------------------------------------------------------------
(* The rest of VP8EncLoop(), whatever StatLoop() returned.                 *)

CodedWith(blocks, probabilities) == {[block |-> b, with |-> probabilities] : b \in blocks}

\* VP8InitFilter()
BeginCoding ==
  /\ loop = "stats" /\ loop' = "code" /\ block' = 0
  /\ filterStats' = {}
  /\ UNCHANGED <<config, last, cnt, search, probas, tokens, sideInfo, coded, statLoop,
                 overflow>>

\* StoreSideInfo() and VP8StoreFilterStats()
StoreInfos ==
  /\ sideInfo' = sideInfo \cup {Current} /\ filterStats' = filterStats \cup {Current}

CodeBlock ==
  /\ loop = "code" /\ block < Macroblocks
  /\ block' = block + 1
  /\ \/ /\ coded' = coded \cup CodedWith({Current}, <<coeffs, skipProba>>)
        /\ StoreInfos
        /\ loop' \in {"code", "abort"}
     \/ loop' = "memory" /\ UNCHANGED <<coded, infos>>
  /\ UNCHANGED <<config, last, cnt, search, probas, tokens, statLoop, overflow>>

\* PostLoopFinalize(): the writers may have failed.
CodingEnds ==
  /\ loop = "code" /\ block = Macroblocks
  /\ loop' \in {"ok", "memory"}
  /\ UNCHANGED <<config, last, block, cnt, search, probas, tokens, infos, coded,
                 statLoop, overflow>>

CodingLoop == BeginCoding \/ CodeBlock \/ CodingEnds

------------------------------------------------------------------------------
(* VP8EncTokenLoop()                                                       *)

\* ResetTokenStats() and VP8InitFilter() are for the last pass.
BeginTokenPass ==
  /\ loop = "token" /\ loop' = "tokenPass"
  /\ BeginPass
  /\ cnt' = RefreshAfter /\ tokens' = {}
  /\ sideInfo' = Before(sideInfo)
  /\ counted' = (IF last' THEN {} ELSE Before(counted))
  /\ filterStats' = (IF last' THEN {} ELSE Before(filterStats))
  /\ UNCHANGED <<config, dq, headerBits, coded, statLoop>>

\* The costs are refreshed now and then from what is counted so far.
TokenBlock ==
  /\ loop = "tokenPass" /\ block < Macroblocks
  /\ block' = block + 1
  /\ IF cnt = 0 THEN coeffs' = counted /\ cnt' = RefreshAfter
                ELSE cnt' = cnt - 1 /\ UNCHANGED coeffs
  /\ counted' = counted \cup {Current}
  /\ \/ /\ tokens' = tokens \cup {Current}
        /\ IF last THEN StoreInfos /\ loop' \in {"tokenPass", "abort"}
                   ELSE UNCHANGED <<infos, loop>>
     \/ loop' = "memory" /\ UNCHANGED <<tokens, infos>>
  /\ UNCHANGED <<config, last, search, skips, skipProba, coded, statLoop, overflow>>

KeepSideInfo == UNCHANGED sideInfo                                  \* (faulty)

\* The side information of a last pass that starts over.
ResetSideInfo == sideInfo' = IF last THEN {} ELSE sideInfo

EndTokenPass ==
  /\ loop = "tokenPass" /\ block = Macroblocks
  /\ IF config.target = "size" THEN coeffs' = counted ELSE UNCHANGED coeffs
  /\ overflow' \in Overflows
  /\ IF MustStartOver THEN StartOver /\ ResetSideInfo /\ loop' = "token"
     ELSE /\ UNCHANGED <<left, headerBits, sideInfo>>
          /\ IF ~last /\ config.target # "none" THEN ComputeNextQ ELSE UNCHANGED dq
          /\ loop' = IF last THEN "emit" ELSE "token"
  /\ UNCHANGED <<config, last, block, cnt, counted, skips, skipProba, tokens,
                 filterStats, coded, statLoop>>

\* VP8EmitTokens(), the last report and PostLoopFinalize().
EmitTokens ==
  /\ loop = "emit"
  /\ IF config.target = "size" THEN UNCHANGED coeffs ELSE coeffs' = counted
  /\ coded' = CodedWith(tokens, <<coeffs', skipProba>>)
  /\ tokens' = {}
  /\ loop' \in Ends
  /\ UNCHANGED <<config, last, block, cnt, search, counted, skips, skipProba, infos,
                 statLoop, overflow>>

TokenLoop == BeginTokenPass \/ TokenBlock \/ EndTokenPass \/ EmitTokens

------------------------------------------------------------------------------
(* Properties                                                              *)

\* The partitions hold each macroblock once, as it was in the last pass, coded
\* with the probabilities that the header will give; the side information and
\* the statistics that choose the filter are of these macroblocks; and their
\* modes fit in the first partition unless no bit is left to take away.
StreamIsOfThePass ==
  /\ coded = CodedWith(FirstOfPass(Macroblocks), <<coeffs, skipProba>>)
  /\ sideInfo = FirstOfPass(Macroblocks) /\ filterStats = FirstOfPass(Macroblocks)
  /\ overflow => headerBits = 0

\* These probabilities were made from the statistics of that pass, with
\* tokens of it alone.  Not when StatLoop() gave up.
ProbasAreOfThePass ==
  IF config.tokens THEN coeffs = FirstOfPass(Macroblocks) /\ skipProba = {}
  ELSE statLoop = "ok" =>
         FirstOfPass(StatBlocks) \subseteq coeffs /\ skipProba = FirstOfPass(StatBlocks)

\* What a loop that succeeds leaves for VP8EncWrite() is of one pass, however
\* many were made and whichever of them turned out to be the last.
OnePassIsCoded == loop = "ok" => StreamIsOfThePass /\ ProbasAreOfThePass
=============================================================================

------------------------------ MODULE Screens ------------------------------
(***************************************************************************)
(* What the screens of web/ show: the ladder page (ChainScreen), the live      *)
(* ladders the engine keeps for whoever watches (ChainCache), and the chart of  *)
(* implied against realised volatility (Volatility). The page looks at a        *)
(* ladder as one value and the cache at whether it is current, so a behaviour  *)
(* follows one of the three.                                                *)
(***************************************************************************)
EXTENDS Volatility, ChainScreen, ChainCache

VARIABLE screen  \* which of the three the behaviour follows

screenVars == <<screen, chartVars, pageVars, cacheVars>>

(* No page is open on the other sides. *)
NoPage ==
  /\ page = Opened([underlying |-> NoExpiry, expiry |-> NoExpiry, wanted |-> Edge])
  /\ asks = {} /\ subs = {} /\ picks = 0 /\ failures = 0 /\ lost = {}

ScreensInit ==
  /\ ChartInit /\ CacheInit
  /\ \/ screen \in {"volatility", "cache"} /\ NoPage
     \/ screen = "chain" /\ PageInit

ScreensNext ==
  \/ screen = "volatility" /\ ChartNext /\ UNCHANGED <<screen, pageVars, cacheVars>>
  \/ screen = "chain" /\ PageNext /\ UNCHANGED <<screen, chartVars, cacheVars>>
  \/ screen = "cache" /\ CacheNext /\ UNCHANGED <<screen, chartVars, pageVars>>

ScreensSpec == ScreensInit /\ [][ScreensNext]_screenVars /\ PageFairness /\ CacheFairness
=============================================================================

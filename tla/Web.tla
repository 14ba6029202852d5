--------------------------------- MODULE Web ---------------------------------
(***************************************************************************)
(* Components of the web server that share no state in one specification:  *)
(* pull requests, release assets, login codes and rate limits.  A          *)
(* behaviour is one of one of them, chosen to begin with, while the others *)
(* stay as they begin; or of none, for another to be added.                *)
(***************************************************************************)
EXTENDS PullMerge, ReleaseAssets, LoginCodes, RateLimits

VARIABLE part

webVars == <<part, pullVars, assetVars, codeVars, rateVars>>

\* Only the login codes begin in more than one state.
WebInit ==
    /\ part \in {"pulls", "assets", "codes", "rates", "none"}
    /\ PullInit /\ AssetInit /\ CodeInit /\ RateInit
    /\ part # "codes" => kind = "device"

Only(p) ==
    /\ part = p /\ UNCHANGED part
    /\ p # "pulls" => UNCHANGED pullVars
    /\ p # "assets" => UNCHANGED assetVars
    /\ p # "codes" => UNCHANGED codeVars
    /\ p # "rates" => UNCHANGED rateVars

WebNext ==
    \/ Only("pulls") /\ PullNext
    \/ Only("assets") /\ AssetNext
    \/ Only("codes") /\ CodeNext
    \/ Only("rates") /\ RateNext

WebSpec == WebInit /\ [][WebNext]_webVars

\* Rows, objects, requests and histories keep the types their modules give
\* them: no handler writes what another cannot read.
WebTypeOK ==
    CASE part = "pulls" -> PullTypeOK
      [] part = "assets" -> AssetTypeOK
      [] part = "codes" -> CodeTypeOK
      [] part = "rates" -> RateTypeOK
      [] OTHER -> TRUE
==============================================================================

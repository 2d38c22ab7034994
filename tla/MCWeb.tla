------------------------------- MODULE MCWeb --------------------------------
(***************************************************************************)
(* A request and its answer, side by side: reading it, its url, form and   *)
(* cookies, filters and authorization, fastpath files and ADP pages, the   *)
(* response, and the pool whose threads run it.  What a part takes from    *)
(* another (a path, a length) is an input here, so a behaviour exercises   *)
(* one of them, the part chosen in the initial state.                      *)
(***************************************************************************)
EXTENDS
    Requests, UrlSpace, Nsperm, RequestText, Response, Fastpath, Adp, ConnPool, TLC

CONSTANT WebParts
VARIABLE part

webVars ==
  <<part,
    rqVars, reqVars, urlVars, <<indexList>>, permVars, u2fVars, urlsVars, formVars, ckVars,
    rspVars, rngVars, fpVars, adpVars, axVars, apVars, vars>>

WebInit ==
    /\ part \in WebParts
    /\ RqInit
    /\ ReqInit
    /\ UrlInit
    /\ IndexInit
    /\ PermInit
    /\ U2fInit
    /\ UrlsInit
    /\ FormInit
    /\ CkInit
    /\ RspInit
    /\ RngInit
    /\ FpInit
    /\ AdpInit
    /\ AxInit
    /\ ApInit
    /\ Init

OnlyReadReq ==
    part = "readreq" /\ UNCHANGED
      <<part, reqVars, urlVars, <<indexList>>, permVars, u2fVars, urlsVars, formVars, ckVars,
        rspVars, rngVars, fpVars, adpVars, axVars, apVars, vars>>

OnlyRequests ==
    part = "requests" /\ UNCHANGED
      <<part, rqVars, urlVars, <<indexList>>, permVars, u2fVars, urlsVars, formVars, ckVars,
        rspVars, rngVars, fpVars, adpVars, axVars, apVars, vars>>

OnlyUrlSpace ==
    part = "urlspace" /\ UNCHANGED
      <<part, rqVars, reqVars, <<indexList>>, permVars, u2fVars, urlsVars, formVars, ckVars,
        rspVars, rngVars, fpVars, adpVars, axVars, apVars, vars>>

OnlyIndexInts ==
    part = "index" /\ UNCHANGED
      <<part, rqVars, reqVars, urlVars, permVars, u2fVars, urlsVars, formVars, ckVars, rspVars,
        rngVars, fpVars, adpVars, axVars, apVars, vars>>

OnlyNsperm ==
    part = "nsperm" /\ UNCHANGED
      <<part, rqVars, reqVars, urlVars, <<indexList>>, u2fVars, urlsVars, formVars, ckVars,
        rspVars, rngVars, fpVars, adpVars, axVars, apVars, vars>>

OnlyUrl2File ==
    part = "url2file" /\ UNCHANGED
      <<part, rqVars, reqVars, urlVars, <<indexList>>, permVars, urlsVars, formVars, ckVars,
        rspVars, rngVars, fpVars, adpVars, axVars, apVars, vars>>

OnlyUrls ==
    part = "urls" /\ UNCHANGED
      <<part, rqVars, reqVars, urlVars, <<indexList>>, permVars, u2fVars, formVars, ckVars,
        rspVars, rngVars, fpVars, adpVars, axVars, apVars, vars>>

OnlyForms ==
    part = "forms" /\ UNCHANGED
      <<part, rqVars, reqVars, urlVars, <<indexList>>, permVars, u2fVars, urlsVars, ckVars,
        rspVars, rngVars, fpVars, adpVars, axVars, apVars, vars>>

OnlyCookies ==
    part = "cookies" /\ UNCHANGED
      <<part, rqVars, reqVars, urlVars, <<indexList>>, permVars, u2fVars, urlsVars, formVars,
        rspVars, rngVars, fpVars, adpVars, axVars, apVars, vars>>

OnlyResponse ==
    part = "response" /\ UNCHANGED
      <<part, rqVars, reqVars, urlVars, <<indexList>>, permVars, u2fVars, urlsVars, formVars,
        ckVars, rngVars, fpVars, adpVars, axVars, apVars, vars>>

OnlyRanges ==
    part = "ranges" /\ UNCHANGED
      <<part, rqVars, reqVars, urlVars, <<indexList>>, permVars, u2fVars, urlsVars, formVars,
        ckVars, rspVars, fpVars, adpVars, axVars, apVars, vars>>

OnlyFastpath ==
    part = "fastpath" /\ UNCHANGED
      <<part, rqVars, reqVars, urlVars, <<indexList>>, permVars, u2fVars, urlsVars, formVars,
        ckVars, rspVars, rngVars, adpVars, axVars, apVars, vars>>

OnlyAdpPages ==
    part = "adppages" /\ UNCHANGED
      <<part, rqVars, reqVars, urlVars, <<indexList>>, permVars, u2fVars, urlsVars, formVars,
        ckVars, rspVars, rngVars, fpVars, axVars, apVars, vars>>

OnlyAdpExec ==
    part = "adpexec" /\ UNCHANGED
      <<part, rqVars, reqVars, urlVars, <<indexList>>, permVars, u2fVars, urlsVars, formVars,
        ckVars, rspVars, rngVars, fpVars, adpVars, apVars, vars>>

OnlyAdpParse ==
    part = "adpparse" /\ UNCHANGED
      <<part, rqVars, reqVars, urlVars, <<indexList>>, permVars, u2fVars, urlsVars, formVars,
        ckVars, rspVars, rngVars, fpVars, adpVars, axVars, vars>>

OnlyPool ==
    part = "pool" /\ UNCHANGED
      <<part, rqVars, reqVars, urlVars, <<indexList>>, permVars, u2fVars, urlsVars, formVars,
        ckVars, rspVars, rngVars, fpVars, adpVars, axVars, apVars>>

WebNext ==
    \/ OnlyReadReq /\ RqNext
    \/ OnlyRequests /\ ReqNext
    \/ OnlyUrlSpace /\ UrlNext
    \/ OnlyIndexInts /\ IndexNext
    \/ OnlyNsperm /\ PermNext
    \/ OnlyUrl2File /\ U2fNext
    \/ OnlyUrls /\ UrlsNext
    \/ OnlyForms /\ FormNext
    \/ OnlyCookies /\ CkNext
    \/ OnlyResponse /\ RspNext
    \/ OnlyRanges /\ RngNext
    \/ OnlyFastpath /\ FpNext
    \/ OnlyAdpPages /\ AdpPagesNext
    \/ OnlyAdpExec /\ AxNext
    \/ OnlyAdpParse /\ ApNext
    \/ OnlyPool /\ Next

WebSpec == WebInit /\ [][WebNext]_webVars

\* The fairness that each component states, for the part that runs.  One strong
\* fairness condition per process: the i-th process of the part.
WebProcess(i) ==
    \/ part = "pool" /\ CASE i = 1 -> \E d \in Drivers : ~crashed /\ QueueSignal(d)
          [] OTHER -> FALSE

WebLiveSpec ==
    /\ WebSpec
    /\ \A i \in 1..1 : SF_vars(WebProcess(i))
    /\ \A t \in FpThreads : WF_fpVars(part = "fastpath" /\ FpStep(t))
    /\ \A i \in AdpInterps : WF_adpVars(part = "adppages" /\ AdpStep(i))
    /\ \A d \in Drivers : WF_vars(part = "pool" /\ ~crashed /\ DriverStep(d))
    /\ \A d \in Drivers : WF_vars(part = "pool" /\ ~crashed /\ EnsureRunning(d))
    /\ \A t \in Slots : WF_vars(part = "pool" /\ ~crashed /\ ThreadStep(t))
    /\ \A t \in Slots : WF_vars(part = "pool" /\ ~crashed /\ ThreadExpires(t))
    /\ WF_vars(part = "pool" /\ ~crashed /\ MainStep)

\* Requests of all kinds: complete and cut off, with and without content, chunked, too large
McShapes ==
    {[line |-> l, headers |-> h, declared |-> 0, chunks |-> <<>>, body |-> 1] :
        l \in {"ok", "bad", "old", "long"}, h \in {<<>>, <<"plain", "plain">>, <<"bad">>, <<"plain", "plain", "plain">>, <<"long">>}}
    \cup {[line |-> "ok", headers |-> <<"length">>, declared |-> d, chunks |-> <<>>, body |-> b] : d \in {0, 3, 5, 8, 10}, b \in {2, 6, 10}}
    \cup {[line |-> "ok", headers |-> <<"chunked">>, declared |-> 0, chunks |-> <<1, 2>>, body |-> b] : b \in {1, 3, 5}}
\* The same without chunks of unknown length, and of sizes that the driver takes
McShapesCalm ==
    {[line |-> l, headers |-> h, declared |-> 0, chunks |-> <<>>, body |-> 1] :
        l \in {"ok", "bad", "old", "long"}, h \in {<<>>, <<"plain", "plain">>, <<"bad">>, <<"plain", "plain", "plain">>, <<"long">>}}
    \cup {[line |-> "ok", headers |-> <<"length">>, declared |-> d, chunks |-> <<>>, body |-> b] : d \in {0, 3, 5, 8}, b \in {2, 6, 9}}
    \cup {[line |-> "ok", headers |-> <<"chunked", "expect">>, declared |-> 3, chunks |-> <<1, 2>>, body |-> b] : b \in {1, 3, 5}}

McRegSeqs == {<<"GET">>, <<"GET", "d">>, <<"GET", "d", "a.t">>, <<"GET", "d", "*.t">>, <<"GET", "d", "x*">>,
              <<"GET", "*.t">>, <<"GET", "*.t*">>}
McCalmSeqs == {<<"GET">>, <<"GET", "d">>, <<"GET", "d", "*.t">>, <<"GET", "d", "x*">>}
McAskSeqs == {<<"GET", "d">>, <<"GET", "d", "a.t">>, <<"GET", "d", "x.t">>, <<"GET", "x.t">>}
McStringMatch == ({"GET", "d", "a.t", "x.t", "*.t", "*.t*", "x*", "*", ""} \X {"*"})
    \cup ({"a.t", "x.t", "*.t"} \X {"*.t"}) \cup ({"a.t", "x.t", "*.t", "*.t*"} \X {"*.t*"}) \cup ({"x.t", "x*"} \X {"x*"})

McKinds == {[pwd |-> "p", crypt |-> TRUE, clear |-> FALSE, allow |-> TRUE, hosts |-> {"h"}],
            [pwd |-> "p", crypt |-> FALSE, clear |-> TRUE, allow |-> FALSE, hosts |-> {"h"}],
            [pwd |-> "", crypt |-> FALSE, clear |-> FALSE, allow |-> FALSE, hosts |-> {}]}
McKinds1 == {[pwd |-> "", crypt |-> FALSE, clear |-> FALSE, allow |-> FALSE, hosts |-> {}]}

McCkNames == {<<"a">>, <<"b", "a">>}
McCkNamesOwn == {<<"a", "b">>, <<"b", "a">>}
McCkValues == {<<"1">>, <<"2">>}

McDirc == <<2, 1>>
McDirc1 == <<1>>

\* From bytes to procedure: a request's content is what was sent, filters and
\* traces run in order on what is still registered, lookups find the best
\* match, and the tables of users and groups agree.
RequestsInv ==
    /\ part = "readreq" => ReadInv
    /\ part = "requests" => RequestInv
    /\ part = "urlspace" => UrlFindBest
    /\ part = "index" => IndexInv
    /\ part = "nsperm" => PermTables
    /\ part = "url2file" => U2fInv

\* Paths, urls, hosts, forms and cookies: a normalised path stays below its
\* root, encoding is undone by decoding, and each field is found once.
TextInv ==
    /\ part = "urls" => UrlInv
    /\ part = "forms" => FormInv
    /\ part = "cookies" => ReplacedOnce

\* The answer: chunks are framed soundly, ranges are exactly the bytes asked
\* for, and cached files are counted and fresh.
ResponseInv ==
    /\ part = "response" => ChunksSound
    /\ part = "ranges" => RangesInv
    /\ part = "fastpath" => FilesCounted /\ PageFresh

\* ADP: pages in use are not freed and not outdated, frames are unwound as
\* they were entered, and a page is taken apart completely and in order.
AdpInv ==
    /\ part = "adppages" => AdpPagesInv
    /\ part = "adpexec" => AdpExecInv
    /\ part = "adpparse" => AdpParseInv

\* What holds as long as the races and the misuse that the modules name are
\* left out: how a request is cut into pieces does not matter, everyone is
\* answered, tables are exact, and an answer has the length that it states.
WebCalmInv ==
    /\ part = "readreq" => PiecesDoNotMatter
    /\ part = "requests" => EveryoneAnswered
    /\ part = "urlspace" => UrlCalmInv
    /\ part = "nsperm" => PermCalm
    /\ part = "cookies" => CookiesOwn
    /\ part = "response" => RspCalm
    /\ part = "fastpath" => PageFresh
    /\ part = "adppages" => AdpPagesInv
    /\ part = "adpexec" => AdpExecCalm

\* Every page that is asked for is served.
WebLive ==
    /\ FpServed
    /\ AdpServed
=============================================================================

---------------------------- MODULE MCAdmission ----------------------------
(* A small instance of Admission for TLC: see MCAdmission.cfg. *)
EXTENDS Admission

Base == [Default EXCEPT !.requestTimeout = 1, !.permitWait = 2, !.maxBytes = 1,
                        !.maxConcurrency = 2]

(* A limit that does not divide the second, with the fallback of             *)
(* qps_wait_timeout; no limit; and builders that build nothing.              *)
MCBuilders ==
    {Base, [Base EXCEPT !.maxPerSecond = 3]}
    \cup {[Base EXCEPT !.maxPerSecond = 0],
          [Base EXCEPT !.maxPerSecond = 6],
          [Base EXCEPT !.maxConcurrency = 0],
          [Base EXCEPT !.permitWait = 0],
          [Base EXCEPT !.maxPerSecond = 3, !.qpsWait = 0],
          [Base EXCEPT !.retry.maxAttempts = 0],
          [Base EXCEPT !.baseUrl = "http_loopback_ip"]}
=============================================================================

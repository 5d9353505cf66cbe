---------------------------- MODULE MCHttpServer ----------------------------
(* Values for the constants of HttpServer. *)
EXTENDS HttpServer

Get(p, t, i)  == [method |-> "GET", path |-> p, token |-> t, input |-> i]
Post(p, t, i) == [method |-> "POST", path |-> p, token |-> t, input |-> i]

\* One request for every way through the router and the handlers.
EveryInquiry ==
  {Get("/health", "none", "good"), Post("/metrics", "none", "good"),
   Get("/nowhere", "none", "good"), Post("/get_archive", "valid", "good"),
   Post("/bulk_generate", "none", "good"), Post("/bulk_generate", "valid", "good"),
   Post("/bulk_generate", "valid", "unreadable"), Get("/get_job_status", "valid", "no id"),
   Post("/auth/register", "none", "unparsable"), Get("/auth/login", "none", "good")}

SomeOutcomes == {"ok", "unexpected", "ErrNotFound"}
=============================================================================

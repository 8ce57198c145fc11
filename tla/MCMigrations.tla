---------------------------- MODULE MCMigrations ---------------------------
(* Migrations with the files of migrations/ and the tables of models.py.   *)
EXTENDS Migrations

Table(t) == <<t, "">>

RepositoryFiles == <<
  <<Table("items"), Table("reminders")>>,
  <<Table("oauth_clients"), Table("oauth_codes"), Table("oauth_refresh_tokens")>>,
  <<Table("users"), <<"items", "user_id">>, <<"reminders", "user_id">>>>,
  <<Table("attachments")>>,
  <<<<"users", "tz">>, <<"users", "notify_topic">>, <<"users", "notify_prefs">>,
    <<"users", "last_digest_at">>>>,
  <<<<"users", "notify_token">>>>,
  <<<<"oauth_refresh_tokens", "used_at">>, <<"oauth_refresh_tokens", "family_id">>,
    <<"oauth_refresh_tokens", "parent_id">>, <<"oauth_refresh_tokens", "reason">>>>>>

RepositoryTables ==
  {{Table("items"), <<"items", "user_id">>},
   {Table("reminders"), <<"reminders", "user_id">>},
   {Table("attachments")}}

AnyRelease == 0 .. Len(RepositoryFiles)
=============================================================================

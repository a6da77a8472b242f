----------------------------- MODULE Endpoints -----------------------------
(***************************************************************************)
(* The calls of the SDK: for every method of a service, the HTTP method    *)
(* and the path it asks for, segment by segment; a segment with a colon is *)
(* filled in by the caller (url.PathEscape or strconv.Itoa, so it stays    *)
(* one segment).  Methods that differ in the body alone (Chat and          *)
(* ChatStream, Update and UpdateFrom) are one row.  Bodies and query       *)
(* strings are data and left out.                                          *)
(***************************************************************************)
EXTENDS Sequences

Row(op, method, path) == [op |-> op, method |-> method, path |-> path]
Get(op, path) == Row(op, "GET", path)
Post(op, path) == Row(op, "POST", path)
Put(op, path) == Row(op, "PUT", path)
Patch(op, path) == Row(op, "PATCH", path)
Delete(op, path) == Row(op, "DELETE", path)

Parameters == {":file", ":id", ":name", ":username", ":code"}

AccountCalls ==
    LET A == <<"api", "accounts">>
        F == A \o <<":file">>
    IN {Get("Accounts.List", A),
        Post("Accounts.StartAuth", <<"api", "auth", "start">>),
        Get("Accounts.PollAuth", <<"api", "auth", "poll">>),
        Post("Accounts.Checkin", F \o <<"checkin">>),
        Post("Accounts.CheckinAll", A \o <<"checkin-all">>),
        Get("Accounts.Credits", F \o <<"credits">>),
        Post("Accounts.RefreshCredits", A \o <<"refresh-credits">>),
        Post("Accounts.SetDisabled", F \o <<"disabled">>),
        Put("Accounts.SetNote", F \o <<"note">>),
        Post("Accounts.Test", F \o <<"test">>),
        Post("Accounts.Refresh", F \o <<"refresh">>),
        Post("Accounts.ClearCooling", F \o <<"clear-cooling">>),
        Delete("Accounts.Delete", F)}

AccountLogCalls ==
    {Get("Accounts.CheckinLogs", <<"api", "checkin-logs">>),
     Post("Accounts.ClearCheckinLogs", <<"api", "checkin-logs", "clear">>),
     Get("Accounts.TaskLogs", <<"api", "task-logs">>),
     Post("Accounts.CollectTaskLogs", <<"api", "task-logs", "collect">>),
     Post("Accounts.ClearTaskLogs", <<"api", "task-logs", "clear">>),
     Get("Accounts.UpstreamLogs", <<"api", "upstream", "logs">>)}

AccountPoolCalls ==
    LET F == <<"api", "accounts", ":file">>
    IN {Post("Accounts.Restart", <<"api", "restart">>),
        Put("Accounts.SetProxy", F \o <<"proxy">>),
        Put("Accounts.SetWeight", F \o <<"weight">>),
        Post("Accounts.ForceCooling", F \o <<"force-cooling">>),
        Post("Accounts.Move", F \o <<"move">>)}

BulkCalls ==
    LET A == <<"api", "accounts">>
    IN {Get("Accounts.Export", A \o <<"export">>),
        Post("Accounts.Upload", A \o <<"upload">>),
        Get("Accounts.AdminAPIStatus", A \o <<"admin-api-status">>),
        Get("Accounts.CreditsSnapshot", A \o <<"credits-snapshot">>),
        Post("Accounts.ProbeModels", A \o <<"probe-models">>),
        Post("Accounts.RefreshTokens", A \o <<"refresh-tokens">>)}

PlanCalls ==
    LET A == <<"api", "accounts">>
        R == A \o <<"refresh-plan">>
        D == A \o <<"daily-plan">>
    IN {Get("Accounts.RefreshPlan", R),
        Put("Accounts.SaveRefreshPlan", R),
        Post("Accounts.RunRefreshPlan", R \o <<"run">>),
        Post("Accounts.ClaimCompensation", A \o <<"claim-compensation">>),
        Get("Accounts.DailyPlan", D),
        Put("Accounts.SaveDailyPlan", D),
        Post("Accounts.RunDailyTask", D \o <<"run">>)}

ProxyCalls ==
    LET R == <<"api", "proxy-routes">>
        N == R \o <<":name">>
        S == <<"api", "settings">>
    IN {Get("Proxies.Routes", R),
        Post("Proxies.CreateRoute", R),
        Put("Proxies.UpdateRoute", N),
        Delete("Proxies.DeleteRoute", N),
        Post("Proxies.ImportRoutes", R \o <<"import">>),
        Post("Proxies.ProbeRoute", R \o <<"probe">>),
        Get("Proxies.Bindings", R \o <<"bindings">>),
        Post("Proxies.BindAccounts", N \o <<"accounts">>),
        Post("Proxies.AutoAssign", N \o <<"auto-assign">>),
        Get("Proxies.AccountRoutes", <<"api", "proxies">>),
        Put("Proxies.SavePool", S \o <<"proxy-pool">>),
        Get("Proxies.Settings", S \o <<"proxy">>),
        Put("Proxies.SaveSettings", S \o <<"proxy">>),
        Post("Proxies.ProbeSettings", S \o <<"proxy", "probe">>)}

SystemCalls ==
    LET S == <<"api", "system">>
    IN {Get("System.Sysinfo", <<"api", "sysinfo">>),
        Get("System.UpdateStatus", S \o <<"update-status">>),
        Get("System.CheckUpdate", S \o <<"check-update">>),
        Get("System.Versions", S \o <<"versions">>),
        Get("System.Changelog", S \o <<"changelog">>),
        Post("System.Update", S \o <<"update">>),
        Post("System.SetUpstreamRef", S \o <<"upstream-ref">>),
        Get("System.Package", S \o <<"update-package">>),
        Post("System.UploadPackage", S \o <<"update-package">>),
        Delete("System.DeletePackage", S \o <<"update-package">>)}

StatsCalls ==
    LET S == <<"api", "stats">>
    IN {Get("Stats.Summary", S \o <<"summary">>),
        Get("Stats.Daily", S \o <<"daily">>),
        Get("Stats.Hourly", S \o <<"hourly">>),
        Get("Stats.CreditsFlow", S \o <<"credits">>),
        Get("Stats.ByModel", S \o <<"by-model">>),
        Get("Stats.ByKey", S \o <<"by-key">>),
        Get("Stats.Upstream", S \o <<"upstream">>),
        Post("Stats.RepairUsage", S \o <<"repair-usage">>),
        Post("Stats.RebuildUsage", S \o <<"rebuild-usage">>)}

SettingsCalls ==
    LET S == <<"api", "settings">>
    IN {Get("Settings.Upstream", S \o <<"upstream">>),
        Post("Settings.SaveUpstream", S \o <<"upstream">>),
        Post("Settings.TestUpstash", S \o <<"upstash", "test">>),
        Get("Settings.ReloadState", <<"api", "upstream", "reload-state">>),
        Post("Settings.ReloadUpstream", S \o <<"upstash", "reload">>),
        Get("Settings.ModelMap", S \o <<"model-map">>),
        Post("Settings.SaveModelMap", S \o <<"model-map">>),
        Get("Settings.GitHubToken", S \o <<"github-token">>),
        Put("Settings.SaveGitHubToken", S \o <<"github-token">>),
        Get("Settings.GitHubMirror", S \o <<"github-mirror">>),
        Put("Settings.SaveGitHubMirror", S \o <<"github-mirror">>)}

TokenCalls ==
    LET T == <<"api", "tokens">>
    IN {Get("Tokens.List", T),
        Post("Tokens.Create", T),
        Patch("Tokens.Update", T \o <<":id">>),
        Delete("Tokens.Delete", T \o <<":id">>)}

KeyCalls ==
    LET K == <<"api", "keys">>
    IN {Get("Keys.List", K),
        Post("Keys.Create", K),
        Patch("Keys.Update", K \o <<":id">>),
        Delete("Keys.Delete", K \o <<":id">>),
        Post("Keys.ResetUsage", K \o <<":id", "reset-usage">>),
        Post("Keys.CheckModels", K \o <<"check-models">>)}

(* Variant: the key to export is named in the path.                        *)
LocalKeyCallsById ==
    {Post("Keys.Export", <<"api", "keys", ":id">>),
     Post("Keys.ImportLocal", <<"api", "keys", "import-local">>)}

LocalKeyCalls ==
    LET K == <<"api", "keys">>
    IN {Post("Keys.Export", K \o <<"export">>),
        Get("Keys.LocalImportStatus", K \o <<"import-local", "status">>),
        Get("Keys.DetectLocalClient", K \o <<"import-local", "detect">>),
        Post("Keys.ImportLocal", K \o <<"import-local">>)}

RedPacketCalls ==
    LET R == <<"api", "red-packets">>
        C == <<"api", "claim", ":code">>
    IN {Post("RedPackets.Create", R),
        Get("RedPackets.List", R),
        Get("RedPackets.Get", R \o <<":id">>),
        Post("RedPackets.Revoke", R \o <<":id", "revoke">>),
        Get("RedPackets.ClaimInfo", C),
        Post("RedPackets.Claim", C)}

PGSyncCalls ==
    LET P == <<"api", "settings", "pg-sync">>
    IN {Get("PGSync.Get", P),
        Post("PGSync.Save", P),
        Post("PGSync.Test", P \o <<"test">>),
        Post("PGSync.Export", P \o <<"export">>),
        Post("PGSync.Import", P \o <<"import">>),
        Get("PGSync.Status", P \o <<"status">>)}

SecurityCalls ==
    LET S == <<"api", "security">>
    IN {Get("Security.Config", S \o <<"config">>),
        Post("Security.SaveConfig", S \o <<"config">>),
        Get("Security.Rules", S \o <<"rules">>),
        Post("Security.AddRule", S \o <<"rules">>),
        Delete("Security.RemoveRule", S \o <<"rules", ":id">>),
        Get("Security.Logs", S \o <<"logs">>),
        Post("Security.ClearLogs", S \o <<"logs", "clear">>)}

ManagedUpstreamCalls ==
    LET U == <<"api", "upstreams">>
    IN {Get("Upstreams.List", U),
        Post("Upstreams.Create", U),
        Patch("Upstreams.Update", U \o <<":id">>),
        Delete("Upstreams.Delete", U \o <<":id">>),
        Post("Upstreams.Probe", U \o <<":id", "probe">>)}

TaskCalls ==
    LET R == <<"api", "task-run">>
        S == <<"api", "task-claim-schedule">>
    IN {Get("Tasks.RunStatus", R),
        Post("Tasks.RunStart", R),
        Post("Tasks.RunStop", R \o <<"stop">>),
        Get("Tasks.ClaimSchedule", S),
        Put("Tasks.SaveClaimSchedule", S)}

LogCalls ==
    {Get("Logs.List", <<"api", "logs">>),
     Post("Logs.Clear", <<"api", "logs", "clear">>)}

UserCalls ==
    LET U == <<"api", "users">>
    IN {Get("Users.List", U),
        Post("Users.Add", U),
        Patch("Users.Update", U \o <<":username">>),
        Delete("Users.Remove", U \o <<":username">>),
        Get("Users.AuditLogs", <<"api", "audit-logs">>)}

SessionCalls ==
    {Get("Me", <<"api", "me">>),
     Post("RevokeSessions", <<"api", "sessions", "revoke">>),
     Post("Logout", <<"api", "logout">>)}

HealthCalls == {Get("Healthz", <<"healthz">>), Get("AdminHealthz", <<"api", "healthz">>)}

UpstreamCalls ==
    {Get("Upstream.Status", <<"api", "status">>),
     Get("Upstream.Models", <<"api", "models">>)}

CatalogCalls == {Get("Catalog.Get", <<"api", "model-catalog">>)}

PlaygroundCalls ==
    {Get("Playground.Models", <<"api", "playground", "models">>),
     Post("Playground.Chat", <<"api", "playground", "chat">>)}

GatewayCalls ==
    {Post("Chat", <<"v1", "chat", "completions">>),
     Post("Responses", <<"v1", "responses">>),
     Post("Messages", <<"v1", "messages">>),
     Post("CountTokens", <<"v1", "messages", "count_tokens">>),
     Get("Models", <<"v1", "models">>)}

UsageCalls == {Get("Usage", <<"v1", "usage">>)}

AccountService == AccountCalls \cup AccountLogCalls \cup AccountPoolCalls \cup
                  BulkCalls \cup PlanCalls
AdminService ==
    ProxyCalls \cup SystemCalls \cup StatsCalls \cup SettingsCalls \cup
    TokenCalls \cup KeyCalls \cup LocalKeyCalls \cup RedPacketCalls \cup
    PGSyncCalls \cup SecurityCalls \cup ManagedUpstreamCalls \cup TaskCalls \cup
    LogCalls \cup UserCalls \cup SessionCalls \cup UpstreamCalls \cup
    CatalogCalls \cup PlaygroundCalls
GatewayService == HealthCalls \cup GatewayCalls \cup UsageCalls
API == AccountService \cup AdminService \cup GatewayService

CallNamed(op) == CHOOSE row \in API : row.op = op
=============================================================================

\* Two users and an administrator's keys, one cache, requests that overlap.
SPECIFICATION Spec
CONSTANTS
  u1 = u1
  u2 = u2
  f1 = f1
  h1 = h1
  h2 = h2
  day = day
  MaxUploadBatch = 2
  Unsafe <- DotDot
  Schemes <- HttpScheme
  Users = {u1, u2}
  Admins = {u2}
  Files = {f1}
  Today = day
  ClientKeys <- Sent
  Prefixes = {"profile", "snaps"}
  Provider = "gcs"
  UrlTtl = 2
  CacheTtl = 1
  MaxDelay = 1
  MaxRows = 2
  Handlers = {h1, h2}
  Scenes <- WhoseAndHowLong
  NoUrl = NoUrl
  None = None
INVARIANTS IssuedKeysUsable HandedToUploader RemovedForUploader CachedUrlFresh

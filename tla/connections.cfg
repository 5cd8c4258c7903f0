SPECIFICATION FairSpec
CONSTANTS
  pd1 = pd1
  pd2 = pd2
  wordpress = wordpress
  hubspot = hubspot
  notion = notion
  zernio = zernio
  google = google
  meta = meta
  shopify = shopify
  a1 = a1
  a2 = a2
  h1 = h1
  h2 = h2
  z1 = z1
  z2 = z2
  Slugs = {pd1, pd2, wordpress, hubspot, notion, zernio, google, meta, shopify}
  Watched = {hubspot}
  Backend <- Planes
  Vendor <- Apps
  At <- Places
  Scenarios <- Workspaces
  Accounts = {a1, a2, h1, h2, z1, z2}
  Callbacks = {b1, b2}
  MaxLinks = 2
  MaxTokens = 3
  MaxFaults = 1
  NoAccount = NoAccount
  NoSlug = NoSlug
  
PROPERTIES  LostAccountWithdrawn
CHECK_DEADLOCK FALSE

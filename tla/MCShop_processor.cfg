SPECIFICATION Spec
CONSTANTS
  stripe = stripe
  paypal = paypal
  postmark = postmark
  twilio = twilio
  printful = printful
  manual = manual
  ann = ann
  bob = bob
  mug = mug
  cap = cap
  processor = processor
  email = email
  sms = sms
  confirmed = confirmed
  abandoned = abandoned
  reset = reset
  home = home
  abroad = abroad
  hats = hats
  boots = boots
  odd = odd
  poster = poster
  sticker = sticker
  fromPrintful = fromPrintful
  fromMaker = fromMaker
  payment = payment
  frontend = frontend
  pay = pay
  dev = dev
  release = release
  latest = latest
  elsewhere = elsewhere
  c1 = c1
  y1 = y1
  a1 = a1
  i1 = i1
  i2 = i2
  e1 = e1
  w1 = w1
  cron = cron
  b1 = b1
  Host = Host
  Packages = {paypal}
  MaxVersion = 2
  MaxBackups = 2
  MaxFlags = 3
  MaxFaults = 2
  Statements = 2
  Shipped = {stripe, postmark, twilio, printful, manual}
  Claims <- ClaimsOf
  Channels = {email, sms}
  Secrets = {good}
  NoSecret = NoSecret
  Admins = {a1, a2}
  Customers = {ann, bob}
  Variants = {mug, cap}
  Supplier <- SupplierOf
  Fee <- FeeOf
  Countries = {home, abroad}
  Payment = processor
  MaxQty = 2
  MaxOrders = 2
  Prices = {1, 3}
  Browsers = {b1, b2}
  MaxReminders = 1
  Events = {confirmed, abandoned, reset}
  SentOn <- SentOnOf
  CartAbandoned = abandoned
  MaxMails = 2
  Jobs = {cron, button}
  Hooks = {h1, h2}
  MaxSecrets = 3
  Images = {i1, i2}
  Logo = logo
  Sizes = {small, large}
  Editors = {e1, e2}
  Writers = {w1, w2}
  Contents = {x, y}
  MaxRows = 2
  MaxCats = 3
  Texts = {hats, boots, odd}
  Bases = {hats, boots}
  BaseOf <- SlugOf
  Items = {poster, sticker}
  MaxSuffix = 3
  Clerks = {c1, c2}
  Makers = {fromPrintful, fromMaker}
  AddonOf <- GroupOf
  Manual = manual
  Payers = {y1, y2}
  Categories = {payment, frontend}
  Ids = {pay, dev}
  Underscored = {dev}
  Archives <- Offered
  Urls = {release, latest, elsewhere}
  Allowed = {release, latest}
  LeadsTo <- Redirects
  MaxRedirects = 1
  NoUrl = NoUrl
  Shops <- Paying
INVARIANTS
  OneProcessor
CHECK_DEADLOCK FALSE
